---- MODULE Spec2Model ----
(***************************************************************************)
(* The knowledge graph of src/scripts/build_knowledge_graph.py             *)
(* (NASAKnowledgeGraph over a networkx MultiDiGraph, its export to JSON)   *)
(* and, of src/app.py, the path query, the loader of the exported file     *)
(* and the statistics endpoint.                                            *)
(*                                                                         *)
(* Strings are sequences of one-character strings, so that the id          *)
(* normalisation is computed character by character.  An id is the pair    *)
(* <<prefix, normalised characters>> that the f-string "prefix_..." builds.*)
(* Edge weight (always 1.0) and edge properties (always {}) are left out.  *)
(***************************************************************************)
EXTENDS Integers, Sequences, FiniteSets, TLC

VARIABLES graph, node_index, edge_index, statistics, pc, result,
          kg, kg_file, load

vars == <<graph, node_index, edge_index, statistics, pc, result, kg, kg_file, load>>

store == <<graph, node_index, edge_index>>

\* the state of src/app.py: the global kg, the file knowledge_graph.json and
\* the position of load_knowledge_graph
app == <<kg, kg_file, load>>

-----------------------------------------------------------------------------
(* Bounds of the model.                                                    *)

MaxAuthors == 3

MaxKeywords == 3

MaxDepth == 2

MaxMinCount == 2

MaxStoreEdges == 2

MaxBlankEntries == 2

MaxCollidingAuthors == 2

MaxCollidingKeywords == 2

MaxRanked == 12

MaxWindow == 3

MaxCentralAuthors == 11

-----------------------------------------------------------------------------
(* Sequences.                                                              *)

SeqsUpTo(S, n) == UNION {[1..k -> S] : k \in 0..n}

Range(s) == {s[i] : i \in DOMAIN s}

RECURSIVE Flatten(_)
Flatten(ss) ==
    IF ss = <<>> THEN <<>>
    ELSE IF Len(ss) = 1 THEN ss[1]
    ELSE LET half == Len(ss) \div 2
         IN Flatten(SubSeq(ss, 1, half)) \o Flatten(SubSeq(ss, half + 1, Len(ss)))

\* the elements of s in order of first appearance, each once
Distinct(s) ==
    LET firsts == SelectSeq([i \in DOMAIN s |-> i],
                            LAMBDA i : \A j \in 1..(i - 1) : s[j] # s[i])
    IN [k \in DOMAIN firsts |-> s[firsts[k]]]

-----------------------------------------------------------------------------
(* Optional values: Python's None, or a key absent from a dict.            *)

Nothing == [some |-> FALSE, v |-> <<>>]

Some(x) == [some |-> TRUE, v |-> x]

-----------------------------------------------------------------------------
(* Entity normaliser: name.replace(' ', '_').replace(',', '').lower()      *)

LowerOf == [c \in {"A", "B", "C", "D", "J", "K", "L", "T", "U"} |->
              CASE c = "A" -> "a" [] c = "B" -> "b" [] c = "C" -> "c"
                [] c = "D" -> "d" [] c = "J" -> "j" [] c = "K" -> "k"
                [] c = "L" -> "l" [] c = "T" -> "t" [] c = "U" -> "u"]

Lower(c) == IF c \in DOMAIN LowerOf THEN LowerOf[c] ELSE c

ReplaceSpaces(name) == [i \in DOMAIN name |-> IF name[i] = " " THEN "_" ELSE name[i]]

RemoveCommas(name) == SelectSeq(name, LAMBDA c : c # ",")

\* Normalize without the call of lower()
NormalizeKeepingCase(name) == RemoveCommas(ReplaceSpaces(name))

Normalize(name) ==
    LET n == RemoveCommas(ReplaceSpaces(name))
    IN [i \in DOMAIN n |-> Lower(n[i])]

EntityId(prefix, name) == <<prefix, Normalize(name)>>

\* a None entry of a list of names: the one-token sequence <<"None">>, which
\* is no string, since the tokens of a string are single characters
NoneEntry == <<"None">>

\* the characters that str.strip() removes
Whitespace == {" ", "\t"}

\* not name or name.strip() == ''
IsBlank(name) == name = NoneEntry \/ \A i \in DOMAIN name : name[i] \in Whitespace

\* str(index) inside f"pub_{index}"
Digits == <<"0", "1", "2", "3", "4", "5", "6", "7", "8", "9">>

RECURSIVE IntStr(_)
IntStr(n) == IF n < 10 THEN <<Digits[n + 1]>>
             ELSE Append(IntStr(n \div 10), Digits[(n % 10) + 1])

\* PubId that gives every record the id of index 0
PubIdOfZero(index) == <<"pub", IntStr(index - index)>>

PubId(index) == <<"pub", IntStr(index)>>

-----------------------------------------------------------------------------
(* networkx.MultiDiGraph: the nodes in insertion order with their attribute *)
(* dict, and the edges in insertion order.  The key of an edge u -> v is    *)
(* its rank among the edges u -> v.                                        *)

\* weight: float = 1.0
DefaultWeight == 1

NoData == [set |-> FALSE, label |-> <<>>, node_type |-> "None", properties |-> <<>>,
           weight |-> DefaultWeight]

NodeData(label, node_type, properties, weight) ==
    [set |-> TRUE, label |-> label, node_type |-> node_type, properties |-> properties,
     weight |-> weight]

EmptyGraph == [node |-> <<>>, data |-> <<>>, edge |-> <<>>]

HasNode(g, n) == n \in Range(g.node)

NodeIdx(g, n) == CHOOSE i \in DOMAIN g.node : g.node[i] = n

DataOf(g, n) == g.data[NodeIdx(g, n)]

\* Graph.add_node that leaves the attributes of an existing node as they are
GraphAddNodeKeepFirst(g, n, d) ==
    IF HasNode(g, n) THEN g
    ELSE [g EXCEPT !.node = Append(@, n), !.data = Append(@, d)]

\* Graph.add_node(n, **attr): a new node is appended, an existing one has
\* its attributes updated in place
GraphAddNode(g, n, d) ==
    IF HasNode(g, n)
    THEN [g EXCEPT !.data[NodeIdx(g, n)] = d]
    ELSE [g EXCEPT !.node = Append(@, n), !.data = Append(@, d)]

\* a node that MultiDiGraph.add_edge meets for the first time is created
\* with an empty attribute dict
GraphTouch(g, n) ==
    IF HasNode(g, n) THEN g
    ELSE [g EXCEPT !.node = Append(@, n), !.data = Append(@, NoData)]

\* MultiDiGraph.add_edge(u, v, **attr)
GraphAddEdge(g, e) ==
    LET g1 == GraphTouch(GraphTouch(g, e.source), e.target)
    IN [g1 EXCEPT !.edge = Append(@, e)]

\* successors of u in the order of adj[u]: first edge to each successor
Successors(g, u) ==
    LET out == SelectSeq(g.edge, LAMBDA e : e.source = u)
    IN Distinct([i \in DOMAIN out |-> out[i].target])

\* G.edges(u, data=True): grouped by successor, then by key
OutEdges(g, u) ==
    LET succ == Successors(g, u)
    IN Flatten([i \in DOMAIN succ |->
                  SelectSeq(g.edge, LAMBDA e : e.source = u /\ e.target = succ[i])])

\* G.edges(data=True): node by node in insertion order
AllEdges(g) == Flatten([i \in DOMAIN g.node |-> OutEdges(g, g.node[i])])

-----------------------------------------------------------------------------
(* NASAKnowledgeGraph: the store                                           *)

GraphNode(id, label, node_type, properties, weight) ==
    [id |-> id, label |-> label, node_type |-> node_type, properties |-> properties,
     weight |-> weight]

GraphEdge(source, target, rel) ==
    [source |-> source, target |-> target, relationship_type |-> rel]

EmptyStore == [graph |-> EmptyGraph, node_index |-> <<>>, edge_index |-> <<>>]

\* dict assignment d[k] = v
Put(d, k, v) == (k :> v) @@ d

add_node(S, node) ==
    [S EXCEPT !.graph = GraphAddNode(@, node.id, NodeData(node.label, node.node_type,
                                                           node.properties, node.weight)),
              !.node_index = Put(@, node.id, node)]

add_edge(S, edge) ==
    LET rel == edge.relationship_type
        old == IF rel \in DOMAIN S.edge_index THEN S.edge_index[rel] ELSE <<>>
    IN [S EXCEPT !.graph = GraphAddEdge(@, edge),
                 !.edge_index = Put(@, rel, Append(old, edge))]

-----------------------------------------------------------------------------
(* build_from_publications                                                 *)

\* pub_data.get(key) is truthy: present, not None and not ''
Truthy(opt) == opt.some /\ opt.v # <<>>

\* pub_data.get(key, []) with None replaced by []
ListOf(opt) == IF opt.some THEN opt.v ELSE <<>>

NoneSeen == [author |-> {}, journal |-> {}, theme |-> {}, keyword |-> {}]

\* the id of the entity is in the set of ids seen in this build
Known(st, kind, name) == EntityId(kind, name) \in st.seen[kind]

\* the branch of an id not seen yet: add_node and seen.add
NewEntity(st, kind, name) ==
    LET id == EntityId(kind, name)
    IN [S    |-> add_node(st.S, GraphNode(id, name, kind, [name |-> name], DefaultWeight)),
        seen |-> [st.seen EXCEPT ![kind] = @ \cup {id}]]

\* the edge publication -> entity
LinkEntity(st, kind, rel, pub_id, name) ==
    [st EXCEPT !.S = add_edge(@, GraphEdge(pub_id, EntityId(kind, name), rel))]

\* AddEntity without its add_node call
AddEntityNoNode(st, kind, rel, pub_id, name) ==
    LinkEntity([st EXCEPT !.seen[kind] = @ \cup {EntityId(kind, name)}],
               kind, rel, pub_id, name)

\* one entity of a record: the node is created unless its id was seen in
\* this build, the edge publication -> entity is always added
AddEntity(st, kind, rel, pub_id, name) ==
    IF Known(st, kind, name)
    THEN LinkEntity(st, kind, rel, pub_id, name)
    ELSE LinkEntity(NewEntity(st, kind, name), kind, rel, pub_id, name)

\* AddEntities that leaves the loop at a blank name (break for continue)
RECURSIVE AddEntitiesUntilBlank(_, _, _, _, _)
AddEntitiesUntilBlank(st, kind, rel, pub_id, names) ==
    IF names = <<>> \/ IsBlank(Head(names)) THEN st
    ELSE AddEntitiesUntilBlank(AddEntity(st, kind, rel, pub_id, Head(names)),
                               kind, rel, pub_id, Tail(names))

\* the loop over the names of one kind in a record: a blank name is passed
\* over; the test of the seen set is made here, on the state the previous
\* turn of the loop left, before the next turn starts
RECURSIVE AddEntities(_, _, _, _, _)
AddEntities(st, kind, rel, pub_id, names) ==
    IF names = <<>> THEN st
    ELSE IF IsBlank(Head(names)) THEN AddEntities(st, kind, rel, pub_id, Tail(names))
    ELSE IF Known(st, kind, Head(names))
    THEN AddEntities(LinkEntity(st, kind, rel, pub_id, Head(names)),
                     kind, rel, pub_id, Tail(names))
    ELSE AddEntities(AddEntity(st, kind, rel, pub_id, Head(names)),
                     kind, rel, pub_id, Tail(names))

\* the properties of a publication node: the fields that a record of the
\* model does not carry take the defaults of pub_data.get
PublicationProperties(pub_data) ==
    [title |-> pub_data.title, abstract |-> <<>>, summary |-> <<>>, impact |-> <<>>,
     doi |-> Nothing, publication_date |-> Nothing, url |-> <<>>, original_title |-> <<>>]

\* the body of the loop over publications_data
ProcessRecord(st, pub_data) ==
    LET pub_id == PubId(pub_data.index)
        st0 == [st EXCEPT !.S = add_node(@, GraphNode(pub_id, pub_data.title, "publication",
                                                      PublicationProperties(pub_data),
                                                      DefaultWeight))]
        st1 == AddEntities(st0, "author", "authored_by", pub_id, ListOf(pub_data.authors))
        st2 == IF Truthy(pub_data.journal)
               THEN AddEntity(st1, "journal", "published_in", pub_id, pub_data.journal.v)
               ELSE st1
        st3 == IF Truthy(pub_data.theme)
               THEN AddEntity(st2, "theme", "has_theme", pub_id, pub_data.theme.v)
               ELSE st2
    IN AddEntities(st3, "keyword", "has_keyword", pub_id, ListOf(pub_data.keywords))

RECURSIVE ProcessRecords(_, _)
ProcessRecords(st, publications_data) ==
    IF publications_data = <<>> THEN st
    ELSE ProcessRecords(ProcessRecord(st, Head(publications_data)), Tail(publications_data))

\* the authors of a publication as the co-authorship pass reads them:
\* the targets of its authored_by edges in G.edges(pub_id) order
AuthorsOf(g, pub_id) ==
    LET es == SelectSeq(OutEdges(g, pub_id), LAMBDA e : e.relationship_type = "authored_by")
    IN [i \in DOMAIN es |-> es[i].target]

\* PairsOf with the inner loop over all the other positions
PairsOfBothWays(authors) ==
    Flatten([i \in DOMAIN authors |->
               LET others == SelectSeq([k \in DOMAIN authors |-> k], LAMBDA k : k # i)
               IN [k \in DOMAIN others |-> <<authors[i], authors[others[k]]>>]])

\* the pairs (authors[i], authors[j]), i < j, in the order of the two loops
PairsOf(authors) ==
    Flatten([i \in DOMAIN authors |->
               [k \in 1..(Len(authors) - i) |-> <<authors[i], authors[i + k]>>]])

\* add_edge for each pair, in the order of pairs: both ends of a pair are
\* targets of authored_by edges, nodes of the graph already, so each call
\* appends one edge to the graph and one to edge_index['co_authors']
AddCoAuthorEdges(S, pairs) ==
    IF pairs = <<>> THEN S
    ELSE LET edges == [i \in DOMAIN pairs |->
                         GraphEdge(pairs[i][1], pairs[i][2], "co_authors")]
             old == IF "co_authors" \in DOMAIN S.edge_index
                    THEN S.edge_index["co_authors"] ELSE <<>>
         IN [S EXCEPT !.graph.edge = @ \o edges,
                      !.edge_index = Put(@, "co_authors", old \o edges)]

RECURSIVE CoAuthorPass(_, _)
CoAuthorPass(S, publications) ==
    IF publications = <<>> THEN S
    ELSE CoAuthorPass(AddCoAuthorEdges(S, PairsOf(AuthorsOf(S.graph, Head(publications)))),
                      Tail(publications))

_add_co_authorship_relationships(S) ==
    LET publications == SelectSeq(S.graph.node,
                                  LAMBDA n : DataOf(S.graph, n).node_type = "publication")
    IN CoAuthorPass(S, publications)

\* Counter seeded with a zero count for the publication type
CounterWithKnownTypes(s) ==
    [x \in Range(s) \cup {"publication"} |-> Cardinality({i \in DOMAIN s : s[i] = x})]

\* Counter(values): value -> number of occurrences
Counter(s) == [x \in Range(s) |-> Cardinality({i \in DOMAIN s : s[i] = x})]

\* a defaultdict(int) filled by d[key] += 1 over keys: the pairs
\* <<key, count>> in the order in which the keys were first met
Tally(keys) ==
    LET d == Distinct(keys)
    IN [i \in DOMAIN d |-> <<d[i], Cardinality({j \in DOMAIN keys : keys[j] = d[i]})>>]

\* x put behind the last item whose count is not less than its own
RECURSIVE InsertByCount(_, _)
InsertByCount(sorted, x) ==
    IF sorted = <<>> THEN <<x>>
    ELSE IF Head(sorted)[2] >= x[2] THEN <<Head(sorted)>> \o InsertByCount(Tail(sorted), x)
    ELSE <<x>> \o sorted

\* sorted(items, key=lambda x: x[1], reverse=True): stable
RECURSIVE SortedByCount(_)
SortedByCount(items) ==
    IF items = <<>> THEN <<>>
    ELSE InsertByCount(SortedByCount(SubSeq(items, 1, Len(items) - 1)), items[Len(items)])

\* s[:n]
Take(s, n) == SubSeq(s, 1, IF Len(s) < n THEN Len(s) ELSE n)

\* top_n: int = 10
TopN == 10

EdgesOfType(g, rel) == SelectSeq(AllEdges(g), LAMBDA e : e.relationship_type = rel)

\* _get_most_connected_authors that counts an edge for its source only
MostConnectedBySource(g) ==
    LET es == EdgesOfType(g, "co_authors")
    IN Take(SortedByCount(Tally([i \in DOMAIN es |-> es[i].source])), TopN)

_get_most_connected_authors(g) ==
    LET es == EdgesOfType(g, "co_authors")
    IN Take(SortedByCount(Tally(Flatten([i \in DOMAIN es |-> <<es[i].source, es[i].target>>]))),
            TopN)

_get_most_productive_journals(g) ==
    LET es == EdgesOfType(g, "published_in")
    IN Take(SortedByCount(Tally([i \in DOMAIN es |-> es[i].target])), TopN)

\* a dict in insertion order: the sequence of its items
_get_theme_distribution(g) ==
    LET es == EdgesOfType(g, "has_theme")
    IN SortedByCount(Tally([i \in DOMAIN es |-> es[i].target]))

\* SimpleNbrs that keeps the direction of the edges (no to_undirected)
SimpleNbrsOutgoing(g, authors, v) ==
    {u \in authors :
       \E e \in Range(g.edge) :
          e.relationship_type = "co_authors" /\ e.source = v /\ e.target = u}

\* the neighbours of author v in simple_graph: the authors joined to v by a
\* co_authors edge in either direction.  (An edge of another type between
\* two authors, which no build creates, would make remove_edge fail on the
\* read-only subgraph view.)
SimpleNbrs(g, authors, v) ==
    {u \in authors :
       \E e \in Range(g.edge) :
          /\ e.relationship_type = "co_authors"
          /\ (e.source = v /\ e.target = u) \/ (e.source = u /\ e.target = v)}

RECURSIVE SimpleComponent(_, _, _)
SimpleComponent(g, authors, seen) ==
    LET more == seen \cup UNION {SimpleNbrs(g, authors, v) : v \in seen}
    IN IF more = seen THEN seen ELSE SimpleComponent(g, authors, more)

\* nx.connected_components(simple_graph)
SimpleComponents(g, authors) == {SimpleComponent(g, authors, {v}) : v \in authors}

RECURSIVE GCD(_, _)
GCD(a, b) == IF b = 0 THEN a ELSE GCD(b, a % b)

\* the fraction n / d in lowest terms
Fraction(n, d) == LET c == GCD(n, d) IN [num |-> n \div c, den |-> d \div c]

\* nx.clustering of v: the share of the pairs of neighbours of v (v itself
\* left out) that are joined, 0 with fewer than two neighbours
Clustering(g, authors, v) ==
    LET nbrs == SimpleNbrs(g, authors, v) \ {v}
        k == Cardinality(nbrs)
        joined == {p \in SUBSET nbrs :
                     /\ Cardinality(p) = 2
                     /\ \E u \in p, w \in p : u # w /\ w \in SimpleNbrs(g, authors, u)}
    IN IF k < 2 THEN Fraction(0, 1) ELSE Fraction(2 * Cardinality(joined), k * (k - 1))

RECURSIVE SumClustering(_, _, _)
SumClustering(g, authors, todo) ==
    IF todo = {} THEN Fraction(0, 1)
    ELSE LET v == CHOOSE x \in todo : TRUE
             c == Clustering(g, authors, v)
             r == SumClustering(g, authors, todo \ {v})
         IN Fraction(c.num * r.den + r.num * c.den, c.den * r.den)

\* nx.average_clustering(simple_graph), as an exact fraction
AverageClustering(g, authors) ==
    LET sum == SumClustering(g, authors, authors)
    IN Fraction(sum.num, sum.den * Cardinality(authors))

\* len(max(components, key=len))
LargestSize(components) ==
    CHOOSE n \in {Cardinality(c) : c \in components} :
        \A c \in components : Cardinality(c) <= n

_get_collaboration_stats(g) ==
    LET author_nodes == {n \in Range(g.node) : DataOf(g, n).node_type = "author"}
        components == SimpleComponents(g, author_nodes)
    IN [total_authors |-> Cardinality(author_nodes),
        connected_components |-> Cardinality(components),
        largest_component_size |-> IF author_nodes # {} THEN LargestSize(components) ELSE 0,
        average_clustering |-> IF author_nodes # {} THEN AverageClustering(g, author_nodes)
                               ELSE Fraction(0, 1)]

_calculate_statistics(g) ==
    LET es == AllEdges(g)
    IN [total_nodes |-> Len(g.node),
        total_edges |-> Len(g.edge),
        node_types  |-> Counter([i \in DOMAIN g.data |->
                                   IF g.data[i].set THEN g.data[i].node_type ELSE "unknown"]),
        edge_types  |-> Counter([i \in DOMAIN es |-> es[i].relationship_type]),
        most_connected_authors |-> _get_most_connected_authors(g),
        most_productive_journals |-> _get_most_productive_journals(g),
        theme_distribution |-> _get_theme_distribution(g),
        collaboration_network_stats |-> _get_collaboration_stats(g)]

build_from_publications(S, publications_data) ==
    _add_co_authorship_relationships(
        ProcessRecords([S |-> S, seen |-> NoneSeen], publications_data).S)

-----------------------------------------------------------------------------
(* Queries of NASAKnowledgeGraph                                           *)

NotFound == [found |-> FALSE]

\* G[u][v] of a MultiDiGraph: the key dict of the edges u -> v, which maps
\* the integer edge keys 0, 1, ... to the attribute dicts of the edges
KeyDict(g, u, v) == SelectSeq(g.edge, LAMBDA e : e.source = u /\ e.target = v)

IntKey(k) == [int |-> TRUE, k |-> k, s |-> ""]

StrKey(s) == [int |-> FALSE, k |-> 0, s |-> s]

\* Mapping.get(key): the value stored under key, None when key is no key
KeyDictGet(kd, key) ==
    IF key.int /\ key.k + 1 \in DOMAIN kd
    THEN [type |-> "dict", str |-> "", dict |-> kd[key.k + 1]]
    ELSE [type |-> "None", str |-> "", dict |-> Nothing]

\* self.graph[node][neighbor].get('relationship_type') == 'co_authors'
IsCoAuthorLink(g, node, neighbor) ==
    LET got == KeyDictGet(KeyDict(g, node, neighbor), StrKey("relationship_type"))
    IN got.type = "str" /\ got.str = "co_authors"

\* one round of the loop over range(depth)
CollabRound(g, st) ==
    LET expand == st.current_level \ st.visited
        hops == {p \in UNION {{<<n, m>> : m \in Range(Successors(g, n))} : n \in expand} :
                   IsCoAuthorLink(g, p[1], p[2])}
        next_level == {p[2] : p \in hops}
    IN [visited       |-> st.visited \cup expand,
        current_level |-> next_level,
        result_nodes  |-> st.result_nodes \cup next_level,
        result_edges  |-> [p \in DOMAIN st.result_edges \cup hops |->
                             (IF p \in DOMAIN st.result_edges THEN st.result_edges[p] ELSE 0)
                             + (IF p \in hops THEN 1 ELSE 0)]]

RECURSIVE CollabRounds(_, _, _)
CollabRounds(g, st, rounds) ==
    IF rounds <= 0 THEN st ELSE CollabRounds(g, CollabRound(g, st), rounds - 1)

\* the successors of the nodes of `from', and theirs, to the end
RECURSIVE SuccessorClosure(_, _)
SuccessorClosure(g, from) ==
    LET next == from \cup UNION {Range(Successors(g, n)) : n \in from}
    IN IF next = from THEN from ELSE SuccessorClosure(g, next)

\* get_author_collaboration_network that follows every edge out of a node
\* and expands while there is a frontier, whatever depth says
AuthorNetworkUnbounded(g, author_name, depth) ==
    LET author_id == EntityId("author", author_name)
        nodes == SuccessorClosure(g, {author_id})
        hops == UNION {{<<n, m>> : m \in Range(Successors(g, n))} : n \in nodes}
    IN IF ~HasNode(g, author_id) THEN NotFound
       ELSE [found |-> TRUE, nodes |-> nodes, edges |-> [p \in hops |-> 1]]

\* nodes is returned as a set and edges as a bag (pair -> multiplicity):
\* their order comes from the iteration order of Python sets
get_author_collaboration_network(g, author_name, depth) ==
    LET author_id == EntityId("author", author_name)
        st == CollabRounds(g, [visited |-> {}, current_level |-> {author_id},
                               result_nodes |-> {author_id}, result_edges |-> <<>>], depth)
    IN IF ~HasNode(g, author_id) THEN NotFound
       ELSE [found |-> TRUE, nodes |-> st.result_nodes, edges |-> st.result_edges]

\* OtherTargets without the test edge[1] != self
AllTargets(g, pubs, rel, self) ==
    LET es == Flatten([i \in DOMAIN pubs |->
                         SelectSeq(OutEdges(g, pubs[i]),
                                   LAMBDA e : e.relationship_type = rel)])
    IN [i \in DOMAIN es |-> es[i].target]

\* the targets of the rel edges that leave the publications of pubs, one
\* after the other, the target `self' left out
OtherTargets(g, pubs, rel, self) ==
    LET es == Flatten([i \in DOMAIN pubs |->
                         SelectSeq(OutEdges(g, pubs[i]),
                                   LAMBDA e : e.relationship_type = rel /\ e.target # self)])
    IN [i \in DOMAIN es |-> es[i].target]

\* SourcesInto that keeps each source once
SourcesIntoOnce(g, rel, id) ==
    LET es == SelectSeq(AllEdges(g), LAMBDA e : e.relationship_type = rel /\ e.target = id)
    IN Distinct([i \in DOMAIN es |-> es[i].source])

\* the sources of the rel edges of G.edges(data=True) that enter id
SourcesInto(g, rel, id) ==
    LET es == SelectSeq(AllEdges(g), LAMBDA e : e.relationship_type = rel /\ e.target = id)
    IN [i \in DOMAIN es |-> es[i].source]

\* get_theme_connections without the test theme_id not in self.graph
ThemeConnectionsUnguarded(g, theme_name) ==
    LET theme_id == EntityId("theme", theme_name)
        publications == SourcesInto(g, "has_theme", theme_id)
    IN [found |-> TRUE, publications |-> publications,
        related_themes |-> Range(OtherTargets(g, publications, "has_theme", theme_id)),
        publication_count |-> Len(publications)]

get_theme_connections(g, theme_name) ==
    LET theme_id == EntityId("theme", theme_name)
        publications == SourcesInto(g, "has_theme", theme_id)
        related_themes == Range(OtherTargets(g, publications, "has_theme", theme_id))
    IN IF ~HasNode(g, theme_id) THEN NotFound
       ELSE [found |-> TRUE, publications |-> publications,
             related_themes |-> related_themes,
             publication_count |-> Len(publications)]

get_keyword_co_occurrence(g, keyword, min_co_occurrence) ==
    LET keyword_id == EntityId("keyword", keyword)
        publications_with_keyword == SourcesInto(g, "has_keyword", keyword_id)
        co_occurrence_count ==
            Counter(OtherTargets(g, publications_with_keyword, "has_keyword", keyword_id))
        kept == {k \in DOMAIN co_occurrence_count :
                   co_occurrence_count[k] >= min_co_occurrence}
    IN IF ~HasNode(g, keyword_id) THEN NotFound
       ELSE [found |-> TRUE,
             co_occurring_keywords |-> [k \in kept |-> co_occurrence_count[k]],
             total_publications |-> Len(publications_with_keyword)]

-----------------------------------------------------------------------------
(* get_shortest_path of src/app.py                                         *)

\* the neighbours of u in kg.graph.to_undirected()
UndirectedNbrs(g, u) ==
    {e.target : e \in {x \in Range(g.edge) : x.source = u}}
        \cup {e.source : e \in {x \in Range(g.edge) : x.target = u}}

\* the nodes within k hops of the nodes of `from' in the undirected view
RECURSIVE Ball(_, _, _)
Ball(g, from, k) ==
    IF k = 0 THEN from
    ELSE LET next == from \cup UNION {UndirectedNbrs(g, u) : u \in from}
         IN IF next = from THEN from ELSE Ball(g, next, k - 1)

\* nx.has_path(undirected_graph, source, target)
has_path(g, source, target) == target \in Ball(g, {source}, Len(g.node))

\* Distance with two hops more than needed
DistanceWithDetour(g, source, target) ==
    2 + (CHOOSE k \in 0..Len(g.node) :
           /\ target \in Ball(g, {source}, k)
           /\ \A j \in 0..(k - 1) : target \notin Ball(g, {source}, j))

Distance(g, source, target) ==
    CHOOSE k \in 0..Len(g.node) :
        /\ target \in Ball(g, {source}, k)
        /\ \A j \in 0..(k - 1) : target \notin Ball(g, {source}, j)

\* the walks of k hops of the undirected view that start at source
RECURSIVE Walks(_, _, _)
Walks(g, source, k) ==
    IF k = 0 THEN {<<source>>}
    ELSE UNION {{Append(w, n) : n \in UndirectedNbrs(g, w[Len(w)])} :
                  w \in Walks(g, source, k - 1)}

\* nx.shortest_path(undirected_graph, source, target) returns one of the
\* paths of minimum length, which one is left to networkx
ShortestPaths(g, source, target) ==
    {w \in Walks(g, source, Distance(g, source, target)) : w[Len(w)] = target}

\* len(path)
PathLengthOffByOne(path) == Len(path)

\* len(path) - 1
PathLength(path) == Len(path) - 1

\* the entry of a node in the response
PathNode(g, node_id) ==
    LET node_data == DataOf(g, node_id)
    IN [id    |-> node_id,
        label |-> IF node_data.set THEN node_data.label ELSE <<>>,
        type  |-> IF node_data.set THEN node_data.node_type ELSE ""]

\* the responses get_shortest_path can give
get_shortest_path(g, source_id, target_id) ==
    IF ~HasNode(g, source_id) \/ ~HasNode(g, target_id)
    THEN {[status |-> 404, path |-> <<>>, path_length |-> 0]}
    ELSE IF has_path(g, source_id, target_id)
    THEN {[status |-> 200, path |-> [i \in DOMAIN path |-> PathNode(g, path[i])],
           path_length |-> PathLength(path)] :
             path \in ShortestPaths(g, source_id, target_id)}
    ELSE {[status |-> 200, path |-> <<>>, path_length |-> -1]}

-----------------------------------------------------------------------------
(* Inputs                                                                  *)

AuthorNames == {<<"A">>, <<"B", ",">>, <<"C", " ", "D">>}

KeywordNames == {<<"K">>, <<"L", " ">>}

ThemeNames == {<<"T">>, <<"U">>}

JournalNames == {<<"J">>}

Title == <<"t">>

\* an index only names a publication node: with at most two records, two
\* values give every pattern of equal and distinct indexes
Indexes == {0, 1}

Record(index, authors, journal, theme, keywords) ==
    [index |-> index, title |-> Title, authors |-> authors, journal |-> journal,
     theme |-> theme, keywords |-> keywords]

\* records that differ in their author lists only
AuthorRecords ==
    {Record(i, Some(a), Nothing, Nothing, Nothing) :
       i \in Indexes, a \in SeqsUpTo(AuthorNames, MaxAuthors)}

\* records that differ in their keyword lists only
KeywordRecords ==
    {Record(i, Nothing, Nothing, Nothing, Some(k)) :
       i \in Indexes, k \in SeqsUpTo(KeywordNames, MaxKeywords)}

\* records with every kind of entity
TopicRecords ==
    {Record(i, Some(a), x[1], t, Some(x[2])) :
       i \in Indexes, a \in SeqsUpTo({<<"A">>, <<"B", ",">>}, 1),
       t \in {Nothing} \cup {Some(y) : y \in ThemeNames},
       x \in {<<Nothing, <<>>>>} \cup {<<Some(j), <<<<"K">>>>>> : j \in JournalNames}}

\* entries of an authors list that the build must skip, and one it keeps
AuthorEntries == {<<"A">>, <<>>, <<" ", "\t">>, NoneEntry}

\* records whose authors list is absent or null, or holds blank entries
BlankAuthorRecords ==
    {Record(i, a, Nothing, Nothing, Nothing) :
       i \in Indexes,
       a \in {Nothing} \cup {Some(l) : l \in SeqsUpTo(AuthorEntries, MaxBlankEntries)}}

\* records whose journal, theme or keywords are absent, null or blank
BlankTopicRecords ==
    {Record(i, a, j, t, k) :
       i \in Indexes,
       a \in {Nothing, Some(<<<<"A">>>>)},
       j \in {Nothing, Some(<<>>), Some(<<" ">>), Some(<<"J">>)},
       t \in {Nothing, Some(<<"\t">>), Some(<<"T">>)},
       k \in {Nothing, Some(<<NoneEntry, <<"K">>>>), Some(<<<<"K">>, <<" ">>, <<"L", " ">>>>),
              Some(<<<<>>>>)}}

\* records without a blank, to follow a record with blanks
PlainRecords ==
    {Record(i, Some(<<<<"A">>, <<"B", ",">>>>), Nothing, Nothing, Some(<<<<"K">>>>)) :
       i \in Indexes}

\* a record, or two records the second of which is drawn from Second
ListsOf(First, Second) ==
    {<<>>} \cup {<<r>> : r \in First} \cup {<<r, q>> : r \in First, q \in Second}

\* publications_data: at most two records, of one family; a second record
\* has a list shorter than the longest
RecordLists ==
    ListsOf(AuthorRecords, {r \in AuthorRecords : Len(r.authors.v) < MaxAuthors})
        \cup ListsOf(KeywordRecords, {r \in KeywordRecords : Len(r.keywords.v) < MaxKeywords})
        \cup ListsOf(TopicRecords, TopicRecords)
        \cup ListsOf(BlankAuthorRecords \cup BlankTopicRecords, PlainRecords)

PathSources == {PubId(0), EntityId("author", <<"A">>)}

PathTargets == {PubId(1), EntityId("author", <<"A">>), EntityId("author", <<"C", " ", "D">>),
                EntityId("keyword", <<"K">>)}

-----------------------------------------------------------------------------
(* export_to_json and load_knowledge_graph.  A JSON object is a function   *)
(* from its keys, so that an entry may lack a key; {} is <<>>.  An         *)
(* instance of NASAKnowledgeGraph is the record of its four attributes.    *)

\* NASAKnowledgeGraph()
NewInstance ==
    [graph |-> EmptyGraph, node_index |-> <<>>, edge_index |-> <<>>, statistics |-> <<>>]

StoreOf(K) == [graph |-> K.graph, node_index |-> K.node_index, edge_index |-> K.edge_index]

\* a method of the store applied to the instance K
WithStore(K, S) ==
    [K EXCEPT !.graph = S.graph, !.node_index = S.node_index, !.edge_index = S.edge_index]

\* the entry of node i: the attributes are read with .get and a default
NodeEntry(g, i) ==
    LET d == g.data[i]
    IN [id         |-> g.node[i],
        label      |-> IF d.set THEN d.label ELSE <<>>,
        type       |-> IF d.set THEN d.node_type ELSE "",
        properties |-> IF d.set THEN d.properties ELSE <<>>,
        weight     |-> IF d.set THEN d.weight ELSE DefaultWeight]

EdgeEntry(e) ==
    [source |-> e.source, target |-> e.target, relationship_type |-> e.relationship_type,
     weight |-> DefaultWeight, properties |-> <<>>]

\* export_to_json that lists one edge for each linked pair of nodes
ExportOneEdgePerPair(K) ==
    LET links == Distinct([i \in DOMAIN K.graph.edge |->
                             <<K.graph.edge[i].source, K.graph.edge[i].target>>])
        first(l) == CHOOSE i \in DOMAIN K.graph.edge :
                       /\ <<K.graph.edge[i].source, K.graph.edge[i].target>> = l
                       /\ \A j \in 1..(i - 1) :
                             <<K.graph.edge[j].source, K.graph.edge[j].target>> # l
    IN [nodes |-> [i \in DOMAIN K.graph.node |-> NodeEntry(K.graph, i)],
        edges |-> [i \in DOMAIN links |-> EdgeEntry(K.graph.edge[first(links[i])])],
        statistics |-> K.statistics]

\* the document that export_to_json dumps: the nodes in graph.nodes order,
\* the edges in graph.edges order, the statistics attribute as it is
export_to_json(K) ==
    LET es == AllEdges(K.graph)
    IN [nodes |-> [i \in DOMAIN K.graph.node |-> NodeEntry(K.graph, i)],
        edges |-> [i \in DOMAIN es |-> EdgeEntry(es[i])],
        statistics |-> K.statistics]

\* Path.exists() is false
NoFile == [exists |-> FALSE, parses |-> FALSE, graph_data |-> <<>>]

\* a file that json.load rejects
BrokenFile == [exists |-> TRUE, parses |-> FALSE, graph_data |-> <<>>]

\* a file that holds the JSON document graph_data
FileOf(graph_data) == [exists |-> TRUE, parses |-> TRUE, graph_data |-> graph_data]

\* node_data['id'], ['label'], ['type'], ['properties'] raise KeyError
NodeKeys == {"id", "label", "type", "properties"}

\* edge_data['source'], ['target'], ['relationship_type'] raise KeyError
EdgeKeys == {"source", "target", "relationship_type"}

\* the GraphNode made of a node entry that has the required keys
NodeOfEntry(node_data) ==
    GraphNode(node_data.id, node_data.label, node_data.type, node_data.properties,
              IF "weight" \in DOMAIN node_data THEN node_data.weight ELSE DefaultWeight)

\* the GraphEdge made of an edge entry that has the required keys
EdgeOfEntry(edge_data) ==
    GraphEdge(edge_data.source, edge_data.target, edge_data.relationship_type)

\* load_knowledge_graph between two calls: ret is what the last call
\* returned, before is the value kg had when it was called
Idle == [pc |-> "idle", graph_data |-> <<>>, i |-> 0, before |-> Nothing, ret |-> "none"]

-----------------------------------------------------------------------------
(* The state machine: a fresh instance is built, then a query is answered. *)
(* No query changes the store, so a later query starts from the state the  *)
(* first one started from.                                                 *)

Store == [graph |-> graph, node_index |-> node_index, edge_index |-> edge_index]

Init ==
    /\ graph = EmptyGraph
    /\ node_index = <<>>
    /\ edge_index = <<>>
    /\ statistics = <<>>
    /\ pc = "new"
    /\ result = [op |-> "none"]
    /\ kg = Nothing
    /\ kg_file = NoFile
    /\ load = Idle

Build ==
    /\ pc = "new"
    /\ \E publications_data \in RecordLists :
         LET S == build_from_publications(Store, publications_data)
         IN /\ graph' = S.graph
            /\ node_index' = S.node_index
            /\ edge_index' = S.edge_index
            /\ statistics' = _calculate_statistics(S.graph)
            /\ result' = [op |-> "build", publications_data |-> publications_data]
    /\ pc' = "built"
    /\ UNCHANGED app

AuthorNetwork ==
    /\ pc = "built"
    /\ \E author_name \in AuthorNames, depth \in 0..MaxDepth :
         result' = [op |-> "author_network", author_name |-> author_name, depth |-> depth,
                    ret |-> get_author_collaboration_network(graph, author_name, depth)]
    /\ pc' = "answered"
    /\ UNCHANGED <<graph, node_index, edge_index, statistics>>
    /\ UNCHANGED app

ThemeConnections ==
    /\ pc = "built"
    /\ \E theme_name \in ThemeNames :
         result' = [op |-> "theme_connections", theme_name |-> theme_name,
                    ret |-> get_theme_connections(graph, theme_name)]
    /\ pc' = "answered"
    /\ UNCHANGED <<graph, node_index, edge_index, statistics>>
    /\ UNCHANGED app

KeywordCoOccurrence ==
    /\ pc = "built"
    /\ \E keyword \in KeywordNames, min_co_occurrence \in 1..MaxMinCount :
         result' = [op |-> "keyword_co_occurrence", keyword |-> keyword,
                    min_co_occurrence |-> min_co_occurrence,
                    ret |-> get_keyword_co_occurrence(graph, keyword, min_co_occurrence)]
    /\ pc' = "answered"
    /\ UNCHANGED <<graph, node_index, edge_index, statistics>>
    /\ UNCHANGED app

ShortestPath ==
    /\ pc = "built"
    /\ \E source_id \in PathSources, target_id \in PathTargets :
         \E ret \in get_shortest_path(graph, source_id, target_id) :
            result' = [op |-> "shortest_path", source_id |-> source_id,
                       target_id |-> target_id, ret |-> ret]
    /\ pc' = "answered"
    /\ UNCHANGED <<graph, node_index, edge_index, statistics>>
    /\ UNCHANGED app

Next == Build \/ AuthorNetwork \/ ThemeConnections \/ KeywordCoOccurrence \/ ShortestPath

Spec == Init /\ [][Next]_vars

-----------------------------------------------------------------------------
(* Builds with more authors than the ranking keeps: a first record lists   *)
(* the authors 1..n, a second one a short run of them.                     *)

NumberedAuthor(i) == <<"A">> \o IntStr(i)

\* the record of an index whose authors are the authors from..to
RunRecord(index, from, to) ==
    Record(index, Some([k \in 1..(to - from + 1) |-> NumberedAuthor(from + k - 1)]),
           Nothing, Nothing, Nothing)

RankingRecordLists ==
    LET firsts == {RunRecord(0, 1, n) : n \in 2..MaxRanked}
        seconds == {RunRecord(i, from, from + len - 1) :
                      i \in Indexes, len \in 2..MaxWindow, from \in 1..(MaxRanked - MaxWindow + 1)}
    IN ListsOf(firsts, seconds) \ {<<>>}

BuildRanking ==
    /\ pc = "new"
    /\ \E publications_data \in RankingRecordLists :
         LET S == build_from_publications(Store, publications_data)
         IN /\ graph' = S.graph
            /\ node_index' = S.node_index
            /\ edge_index' = S.edge_index
            /\ statistics' = _calculate_statistics(S.graph)
            /\ result' = [op |-> "build", publications_data |-> publications_data]
    /\ pc' = "built"
    /\ UNCHANGED app

NextRanking == BuildRanking

SpecRanking == Init /\ [][NextRanking]_vars

-----------------------------------------------------------------------------
(* The store driven directly: add_node and add_edge called by a client on  *)
(* a fresh instance, as load_knowledge_graph of src/app.py does.           *)

StoreIds == {<<"author", <<"x">>>>, <<"author", <<"y">>>>}

StoreLabels == {<<"X">>, <<"Y">>}

StoreRelations == {"co_authors", "authored_by"}

\* add_node returns normally for every node
AddNode ==
    /\ \E id \in StoreIds, label \in StoreLabels :
         LET node == GraphNode(id, label, "author", [name |-> label], DefaultWeight)
             S == add_node(Store, node)
         IN /\ graph' = S.graph
            /\ node_index' = S.node_index
            /\ edge_index' = S.edge_index
            /\ result' = [op |-> "add_node", node |-> node, raised |-> FALSE]
    /\ UNCHANGED <<statistics, pc>>
    /\ UNCHANGED app

\* add_edge has no check and no raise: it returns normally for every edge
AddEdge ==
    /\ Len(graph.edge) < MaxStoreEdges
    /\ \E source \in StoreIds, target \in StoreIds, rel \in StoreRelations :
         LET edge == GraphEdge(source, target, rel)
             S == add_edge(Store, edge)
         IN /\ graph' = S.graph
            /\ node_index' = S.node_index
            /\ edge_index' = S.edge_index
            /\ result' = [op |-> "add_edge", edge |-> edge, raised |-> FALSE]
    /\ UNCHANGED <<statistics, pc>>
    /\ UNCHANGED app

NextStore == AddNode \/ AddEdge

SpecStore == Init /\ [][NextStore]_vars

-----------------------------------------------------------------------------
(* The build script and the API server.  main() of the build script builds *)
(* an instance and exports it to knowledge_graph.json; the server loads    *)
(* the file into the global kg and answers /api/graph/statistics from it.  *)
(* The file may also be put there, changed or removed by other means.      *)
(* load_knowledge_graph is followed entry by entry, since the handlers of  *)
(* the server read the global kg while it runs.  A behaviour is followed   *)
(* up to the first response.  The file is read in one piece when a load    *)
(* starts, so it is written between the loads only.                        *)

AppRecords ==
    {Record(0, Some(a), Some(<<"J">>), Some(<<"T">>), Some(<< <<"K">> >>)) :
       a \in {<< <<"A">>, <<"B", ",">>, <<"A">> >>, << <<"A">> >>}}

AppSecondRecords ==
    {Record(i, Some(<< <<"B", ",">>, <<"A">> >>), Nothing, Nothing, Nothing) : i \in Indexes}

AppRecordLists == ListsOf(AppRecords, AppSecondRecords)

\* a node entry as export_to_json writes it
AuthorEntry(id, label) ==
    [id |-> id, label |-> label, type |-> "author", properties |-> [name |-> label],
     weight |-> DefaultWeight]

EntryX == AuthorEntry(<<"author", <<"x">>>>, <<"X">>)

EntryY == AuthorEntry(<<"author", <<"y">>>>, <<"Y">>)

\* documents that no export wrote: one without the statistics key and
\* without a weight, one whose statistics are those of another graph, one
\* with a node entry that lacks keys, one with an edge entry that lacks
\* keys, and one without the nodes key
HandDocuments ==
    {[nodes |-> << [id |-> EntryX.id, label |-> EntryX.label, type |-> EntryX.type,
                    properties |-> EntryX.properties] >>,
      edges |-> <<>>],
     [nodes |-> <<EntryX>>, edges |-> <<>>,
      statistics |-> _calculate_statistics(EmptyGraph)],
     [nodes |-> <<EntryX, [id |-> EntryY.id]>>, edges |-> <<>>, statistics |-> <<>>],
     [nodes |-> <<EntryX, EntryY>>,
      edges |-> <<EdgeEntry(GraphEdge(EntryX.id, EntryY.id, "co_authors")),
                  [source |-> EntryX.id]>>,
      statistics |-> <<>>],
     [edges |-> <<>>, statistics |-> <<>>]}

Files == {NoFile, BrokenFile} \cup {FileOf(d) : d \in HandDocuments}

\* no response has been sent yet
Open == result.op # "statistics"

\* main() of build_knowledge_graph.py: build, then export
Main ==
    /\ Open
    /\ pc = "new"
    /\ load.pc = "idle"
    /\ \E publications_data \in AppRecordLists :
         LET S == build_from_publications(Store, publications_data)
             stats == _calculate_statistics(S.graph)
         IN /\ graph' = S.graph
            /\ node_index' = S.node_index
            /\ edge_index' = S.edge_index
            /\ statistics' = stats
            /\ kg_file' = FileOf(export_to_json(
                              [graph |-> S.graph, node_index |-> S.node_index,
                               edge_index |-> S.edge_index, statistics |-> stats]))
            /\ result' = [op |-> "build", publications_data |-> publications_data]
    /\ pc' = "built"
    /\ UNCHANGED <<kg, load>>

\* the file is replaced or removed
WriteFile ==
    /\ Open
    /\ load.pc = "idle"
    /\ \E f \in Files : f # kg_file /\ kg_file' = f
    /\ UNCHANGED <<graph, node_index, edge_index, statistics, pc, result, kg, load>>

\* the exception handler of load_knowledge_graph: return False
LoadFails == [load EXCEPT !.pc = "idle", !.ret = "False"]

\* load_knowledge_graph up to kg = NASAKnowledgeGraph()
LoadStart ==
    /\ Open
    /\ load.pc = "idle"
    /\ IF kg_file.exists /\ kg_file.parses
       THEN /\ kg' = Some(NewInstance)
            /\ load' = [pc |-> "nodes", graph_data |-> kg_file.graph_data, i |-> 1,
                        before |-> kg, ret |-> "none"]
       ELSE /\ load' = [Idle EXCEPT !.before = kg, !.ret = "False"]
            /\ UNCHANGED kg
    /\ UNCHANGED <<graph, node_index, edge_index, statistics, pc, result, kg_file>>

\* one turn of the loop over graph_data['nodes']
LoadNode ==
    /\ Open
    /\ load.pc = "nodes"
    /\ IF "nodes" \notin DOMAIN load.graph_data
       THEN load' = LoadFails /\ UNCHANGED kg
       ELSE IF load.i > Len(load.graph_data.nodes)
       THEN load' = [load EXCEPT !.pc = "edges", !.i = 1] /\ UNCHANGED kg
       ELSE LET node_data == load.graph_data.nodes[load.i]
            IN IF NodeKeys \subseteq DOMAIN node_data
               THEN /\ kg' = Some(WithStore(kg.v, add_node(StoreOf(kg.v),
                                                           NodeOfEntry(node_data))))
                    /\ load' = [load EXCEPT !.i = @ + 1]
               ELSE load' = LoadFails /\ UNCHANGED kg
    /\ UNCHANGED <<graph, node_index, edge_index, statistics, pc, result, kg_file>>

\* one turn of the loop over graph_data['edges']
LoadEdge ==
    /\ Open
    /\ load.pc = "edges"
    /\ IF "edges" \notin DOMAIN load.graph_data
       THEN load' = LoadFails /\ UNCHANGED kg
       ELSE IF load.i > Len(load.graph_data.edges)
       THEN load' = [load EXCEPT !.pc = "statistics", !.i = 0] /\ UNCHANGED kg
       ELSE LET edge_data == load.graph_data.edges[load.i]
            IN IF EdgeKeys \subseteq DOMAIN edge_data
               THEN /\ kg' = Some(WithStore(kg.v, add_edge(StoreOf(kg.v),
                                                           EdgeOfEntry(edge_data))))
                    /\ load' = [load EXCEPT !.i = @ + 1]
               ELSE load' = LoadFails /\ UNCHANGED kg
    /\ UNCHANGED <<graph, node_index, edge_index, statistics, pc, result, kg_file>>

\* kg.statistics = graph_data.get('statistics', {}); return True
LoadFinish ==
    /\ Open
    /\ load.pc = "statistics"
    /\ kg' = Some([kg.v EXCEPT !.statistics =
                      IF "statistics" \in DOMAIN load.graph_data
                      THEN load.graph_data.statistics ELSE <<>>])
    /\ load' = [load EXCEPT !.pc = "idle", !.ret = "True"]
    /\ UNCHANGED <<graph, node_index, edge_index, statistics, pc, result, kg_file>>

\* GET /api/graph/statistics
get_graph_statistics(K) ==
    IF ~K.some THEN [status |-> 500, error |-> "Knowledge graph not loaded"]
    ELSE [status |-> 200, success |-> TRUE, data |-> K.v.statistics]

GetGraphStatistics ==
    /\ Open
    /\ result' = [op |-> "statistics", ret |-> get_graph_statistics(kg)]
    /\ UNCHANGED <<graph, node_index, edge_index, statistics, pc, kg, kg_file, load>>

NextApp ==
    Main \/ WriteFile \/ LoadStart \/ LoadNode \/ LoadEdge \/ LoadFinish \/ GetGraphStatistics

SpecApp == Init /\ [][NextApp]_vars

-----------------------------------------------------------------------------
(* Builds from raw names that differ and normalize to one id, followed by  *)
(* a query by one of the raw names.                                        *)

CollidingAuthors == {<<"A">>, <<"a">>, <<"B", ",">>, <<"B">>}

CollidingJournals == {<<"J">>, <<"j", ",">>}

CollidingThemes == {<<"T">>, <<"t">>}

CollidingKeywords == {<<"K", " ", "L">>, <<"k", "_", "l">>, <<"K">>}

\* records that differ in their author lists only
CollidingAuthorRecords(Is, n) ==
    {Record(i, Some(a), Nothing, Nothing, Nothing) :
       i \in Is, a \in SeqsUpTo(CollidingAuthors, n) \ {<<>>}}

\* records without authors
CollidingTopicRecords ==
    {Record(0, Nothing, j, t, Some(k)) :
       j \in {Nothing} \cup {Some(x) : x \in CollidingJournals},
       t \in {Nothing} \cup {Some(x) : x \in CollidingThemes},
       k \in SeqsUpTo(CollidingKeywords \ {<<"K">>}, MaxCollidingKeywords) \cup {<< <<"K">> >>}}

\* records with one journal, one theme and one keyword
CollidingSecondRecords ==
    {Record(i, Nothing, Some(j), Some(t), Some(<<k>>)) :
       i \in Indexes, j \in CollidingJournals, t \in CollidingThemes,
       k \in CollidingKeywords}

\* publications_data: at most two records, of one family; a second record
\* has a list shorter than the longest
CollisionRecordLists ==
    ListsOf(CollidingAuthorRecords({0}, MaxCollidingAuthors),
            CollidingAuthorRecords(Indexes, MaxCollidingAuthors - 1))
        \cup ListsOf(CollidingTopicRecords, CollidingSecondRecords)

BuildCollision ==
    /\ pc = "new"
    /\ \E publications_data \in CollisionRecordLists :
         LET S == build_from_publications(Store, publications_data)
         IN /\ graph' = S.graph
            /\ node_index' = S.node_index
            /\ edge_index' = S.edge_index
            /\ statistics' = _calculate_statistics(S.graph)
            /\ result' = [op |-> "build", publications_data |-> publications_data]
    /\ pc' = "built"
    /\ UNCHANGED app

AuthorNetworkByRawName ==
    /\ pc = "built"
    /\ \E author_name \in CollidingAuthors, depth \in 0..MaxDepth :
         result' = [op |-> "author_network", author_name |-> author_name, depth |-> depth,
                    ret |-> get_author_collaboration_network(graph, author_name, depth)]
    /\ pc' = "answered"
    /\ UNCHANGED <<graph, node_index, edge_index, statistics>>
    /\ UNCHANGED app

ThemeConnectionsByRawName ==
    /\ pc = "built"
    /\ \E theme_name \in CollidingThemes :
         result' = [op |-> "theme_connections", theme_name |-> theme_name,
                    ret |-> get_theme_connections(graph, theme_name)]
    /\ pc' = "answered"
    /\ UNCHANGED <<graph, node_index, edge_index, statistics>>
    /\ UNCHANGED app

KeywordCoOccurrenceByRawName ==
    /\ pc = "built"
    /\ \E keyword \in CollidingKeywords, min_co_occurrence \in 1..MaxMinCount :
         result' = [op |-> "keyword_co_occurrence", keyword |-> keyword,
                    min_co_occurrence |-> min_co_occurrence,
                    ret |-> get_keyword_co_occurrence(graph, keyword, min_co_occurrence)]
    /\ pc' = "answered"
    /\ UNCHANGED <<graph, node_index, edge_index, statistics>>
    /\ UNCHANGED app

NextCollision ==
    BuildCollision \/ AuthorNetworkByRawName \/ ThemeConnectionsByRawName
        \/ KeywordCoOccurrenceByRawName

SpecCollision == Init /\ [][NextCollision]_vars

-----------------------------------------------------------------------------
(* A second build on the same instance, from the same input: the seen sets *)
(* of build_from_publications are local and start empty again, the graph   *)
(* keeps what the first call added.                                        *)

RebuildRecordLists ==
    ListsOf({r \in AuthorRecords : r.index = 0},
            {r \in AuthorRecords : Len(r.authors.v) < MaxAuthors})

BuildFirst ==
    /\ pc = "new"
    /\ \E publications_data \in RebuildRecordLists :
         LET S == build_from_publications(Store, publications_data)
         IN /\ graph' = S.graph
            /\ node_index' = S.node_index
            /\ edge_index' = S.edge_index
            /\ statistics' = _calculate_statistics(S.graph)
            /\ result' = [op |-> "build", publications_data |-> publications_data]
    /\ pc' = "built"
    /\ UNCHANGED app

\* kg.build_from_publications(publications_data) once more
BuildAgain ==
    /\ pc = "built"
    /\ LET S == build_from_publications(Store, result.publications_data)
       IN /\ graph' = S.graph
          /\ node_index' = S.node_index
          /\ edge_index' = S.edge_index
          /\ statistics' = _calculate_statistics(S.graph)
          /\ result' = [op |-> "rebuild", publications_data |-> result.publications_data,
                        before |-> graph]
    /\ pc' = "rebuilt"
    /\ UNCHANGED app

NextRebuild == BuildFirst \/ BuildAgain

SpecRebuild == Init /\ [][NextRebuild]_vars

-----------------------------------------------------------------------------
(* get_centrality_measures of src/app.py.  A score is an exact fraction;   *)
(* the response carries it rounded to four decimals, as a count of         *)
(* ten-thousandths.                                                        *)

\* the sum of a sequence of integers
RECURSIVE SumInts(_)
SumInts(s) ==
    IF s = <<>> THEN 0
    ELSE IF Len(s) = 1 THEN s[1]
    ELSE LET half == Len(s) \div 2
         IN SumInts(SubSeq(s, 1, half)) + SumInts(SubSeq(s, half + 1, Len(s)))

AddFractions(x, y) == Fraction(x.num * y.den + y.num * x.den, x.den * y.den)

\* the sum of a sequence of fractions
RECURSIVE SumFractions(_)
SumFractions(s) ==
    IF s = <<>> THEN Fraction(0, 1)
    ELSE IF Len(s) = 1 THEN s[1]
    ELSE LET half == Len(s) \div 2
         IN AddFractions(SumFractions(SubSeq(s, 1, half)),
                         SumFractions(SubSeq(s, half + 1, Len(s))))

\* x >= y
NotLess(x, y) == x.num * y.den >= y.num * x.den

\* G.degree(n) of a MultiDiGraph: in-degree plus out-degree, every parallel
\* edge counted, a self-loop counted on both sides
Degree(g, n) ==
    Len(SelectSeq(g.edge, LAMBDA e : e.source = n))
        + Len(SelectSeq(g.edge, LAMBDA e : e.target = n))

\* nx.degree_centrality(G): {n: 1} for every node if len(G) <= 1, else the
\* degree times 1 / (len(G) - 1); in the order of the nodes
degree_centrality(g) ==
    [i \in DOMAIN g.node |->
       <<g.node[i], IF Len(g.node) <= 1 THEN Fraction(1, 1)
                    ELSE Fraction(Degree(g, g.node[i]), Len(g.node) - 1)>>]

\* G[u]: the successors of u
Adj(g, u) == {e.target : e \in {x \in Range(g.edge) : x.source = u}}

\* the nodes a breadth-first search from the nodes of `from' reaches in at
\* most k steps along the edges
RECURSIVE Reached(_, _, _)
Reached(g, from, k) ==
    IF k = 0 THEN from
    ELSE LET next == from \cup UNION {Adj(g, u) : u \in from}
         IN IF next = from THEN from ELSE Reached(g, next, k - 1)

\* the length of the shortest directed path from s to t, -1 without one
DirectedDistance(g, s, t) ==
    IF t \notin Reached(g, {s}, Len(g.node)) THEN -1
    ELSE CHOOSE k \in 0..Len(g.node) :
           /\ t \in Reached(g, {s}, k)
           /\ \A j \in 0..(k - 1) : t \notin Reached(g, {s}, j)

\* D[s][t] for every pair of nodes
Distances(g) ==
    [s \in Range(g.node) |-> [t \in Range(g.node) |-> DirectedDistance(g, s, t)]]

\* sigma[t] of the search from s: the number of shortest paths from s to t
RECURSIVE PathCount(_, _, _, _)
PathCount(g, D, s, t) ==
    IF s = t THEN 1
    ELSE IF D[s][t] < 0 THEN 0
    ELSE SumInts([i \in DOMAIN g.node |->
                    LET u == g.node[i]
                    IN IF u # t /\ t \in Adj(g, u) /\ D[s][u] = D[s][t] - 1
                       THEN PathCount(g, D, s, u) ELSE 0])

PathCounts(g, D) ==
    [s \in Range(g.node) |-> [t \in Range(g.node) |-> PathCount(g, D, s, t)]]

\* the dependency of the pair s, t on v: the share of the shortest paths
\* from s to t that pass through v
PairDependency(D, sigma, s, t, v) ==
    IF s = v \/ t = v \/ s = t \/ D[s][t] < 0 \/ D[s][v] < 0 \/ D[v][t] < 0
    THEN Fraction(0, 1)
    ELSE IF D[s][v] + D[v][t] # D[s][t] THEN Fraction(0, 1)
    ELSE Fraction(sigma[s][v] * sigma[v][t], sigma[s][t])

\* _rescale with normalized=True, endpoints=False: no scale if n <= 2,
\* else 1 / ((n - 1) * (n - 2))
Rescale(b, n) ==
    IF n <= 2 THEN b ELSE Fraction(b.num, b.den * (n - 1) * (n - 2))

\* nx.betweenness_centrality(G): Brandes' accumulation over every source,
\* normalized, in the order of the nodes
betweenness_centrality(g) ==
    LET D == Distances(g)
        sigma == PathCounts(g, D)
        n == Len(g.node)
    IN [i \in DOMAIN g.node |->
          <<g.node[i],
            Rescale(SumFractions(
                      [j \in DOMAIN g.node |->
                         SumFractions([k \in DOMAIN g.node |->
                                         PairDependency(D, sigma, g.node[j], g.node[k],
                                                        g.node[i])])]), n)>>]

\* the closeness of v: sp holds the distances between v and the nodes
\* joined to it by a path, towards v if inward (the graph is reversed
\* first) and from v if not (networkx before 2.3);
\* (len(sp) - 1) / totsp, times (len(sp) - 1) / (len(G) - 1)
Closeness(g, D, v, inward) ==
    LET sp == SelectSeq([i \in DOMAIN g.node |->
                           IF inward THEN D[g.node[i]][v] ELSE D[v][g.node[i]]],
                        LAMBDA x : x >= 0)
        totsp == SumInts(sp)
    IN IF totsp > 0 /\ Len(g.node) > 1
       THEN Fraction((Len(sp) - 1) * (Len(sp) - 1), totsp * (Len(g.node) - 1))
       ELSE Fraction(0, 1)

\* nx.closeness_centrality(G), in the order of the nodes
closeness_centrality(g, inward) ==
    LET D == Distances(g)
    IN [i \in DOMAIN g.node |-> <<g.node[i], Closeness(g, D, g.node[i], inward)>>]

\* x put behind the last item whose score is not less than its own
RECURSIVE InsertByScore(_, _)
InsertByScore(sorted, x) ==
    IF sorted = <<>> THEN <<x>>
    ELSE IF NotLess(Head(sorted)[2], x[2])
         THEN <<Head(sorted)>> \o InsertByScore(Tail(sorted), x)
    ELSE <<x>> \o sorted

\* an ascending sort that is then read backwards: equal scores come out
\* in the reverse of the order of the nodes
RECURSIVE SortedByScoreReversed(_)
SortedByScoreReversed(items) ==
    IF items = <<>> THEN <<>>
    ELSE InsertByScore(SortedByScoreReversed(Tail(items)), Head(items))

\* sorted(items, key=lambda x: x[1], reverse=True): stable
RECURSIVE SortedByScore(_)
SortedByScore(items) ==
    IF items = <<>> THEN <<>>
    ELSE InsertByScore(SortedByScore(SubSeq(items, 1, Len(items) - 1)), items[Len(items)])

\* [:10]
TopCentral == 10

\* the four decimals of round(score, 4)
TenThousand == 10000

\* round(score, 4) as a count of ten-thousandths, a tie going to the even
\* neighbour
Round4(score) ==
    LET q == (score.num * TenThousand) \div score.den
        r == (score.num * TenThousand) % score.den
    IN IF 2 * r < score.den THEN q
       ELSE IF 2 * r > score.den THEN q + 1
       ELSE IF q % 2 = 0 THEN q ELSE q + 1

format_centrality_results(g, centrality_results) ==
    [i \in DOMAIN centrality_results |->
       LET node_id == centrality_results[i][1]
           node_data == DataOf(g, node_id)
       IN [id    |-> node_id,
           label |-> IF node_data.set THEN node_data.label ELSE <<>>,
           type  |-> IF node_data.set THEN node_data.node_type ELSE "",
           score |-> Round4(centrality_results[i][2])]]

\* the response of GET /api/graph/centrality for a loaded graph
get_centrality_measures(g, inward) ==
    LET top_degree == Take(SortedByScore(degree_centrality(g)), TopCentral)
        top_betweenness == Take(SortedByScore(betweenness_centrality(g)), TopCentral)
        top_closeness == Take(SortedByScore(closeness_centrality(g, inward)), TopCentral)
    IN [status |-> 200, success |-> TRUE,
        data |-> [degree_centrality |-> format_centrality_results(g, top_degree),
                  betweenness_centrality |-> format_centrality_results(g, top_betweenness),
                  closeness_centrality |-> format_centrality_results(g, top_closeness)]]

-----------------------------------------------------------------------------
(* The queries on a store.  An instance is filled, by a build or by a      *)
(* client that calls add_node and add_edge as load_knowledge_graph of      *)
(* src/app.py does, and then one operation that is meant to read only is   *)
(* run on it: one of the four queries of the class, the centrality query   *)
(* of the server, or _calculate_statistics.                                *)

\* the pairs _get_collaboration_stats collects in edges_to_remove: the
\* edges between two author nodes that are not co_authors edges
edges_to_remove(g) ==
    LET IsAuthor(n) == DataOf(g, n).node_type = "author"
        between == SelectSeq(g.edge, LAMBDA e : IsAuthor(e.source) /\ IsAuthor(e.target))
        others == SelectSeq(between, LAMBDA e : e.relationship_type # "co_authors")
    IN [i \in DOMAIN others |-> <<others[i].source, others[i].target>>]

\* G.has_edge(u, v)
has_edge(g, u, v) == \E e \in Range(g.edge) : e.source = u /\ e.target = v

\* the position of the edge MultiDiGraph.remove_edge(u, v) removes: the
\* one added last between u and v
LastEdge(g, u, v) ==
    CHOOSE i \in DOMAIN g.edge :
        /\ g.edge[i].source = u /\ g.edge[i].target = v
        /\ \A j \in DOMAIN g.edge :
              g.edge[j].source = u /\ g.edge[j].target = v => j <= i

\* remove_edge on a subgraph that shares the edges of the graph it was
\* taken from and can be written
SubgraphRemoveEdgeWritable(g, u, v) ==
    [raised |-> FALSE,
     graph |-> [g EXCEPT !.edge = SubSeq(@, 1, LastEdge(g, u, v) - 1)
                                    \o SubSeq(@, LastEdge(g, u, v) + 1, Len(@))]]

\* author_subgraph.remove_edge(u, v): G.subgraph gives a read-only view of
\* self.graph, the call raises NetworkXError and nothing is removed
SubgraphRemoveEdge(g, u, v) ==
    [raised |-> TRUE, graph |-> g]

\* the loop over edges_to_remove, up to the first call that raises
RECURSIVE RemoveEdges(_, _)
RemoveEdges(g, todo) ==
    IF todo = <<>> THEN [raised |-> FALSE, graph |-> g]
    ELSE IF ~has_edge(g, todo[1][1], todo[1][2]) THEN RemoveEdges(g, Tail(todo))
    ELSE LET r == SubgraphRemoveEdge(g, todo[1][1], todo[1][2])
         IN IF r.raised THEN r ELSE RemoveEdges(r.graph, Tail(todo))

\* self._calculate_statistics() on an instance: self.statistics is
\* assigned once every entry of the dict has been computed, so not at all
\* if _get_collaboration_stats raises
CalculateStatistics(K) ==
    LET r == RemoveEdges(K.graph, edges_to_remove(K.graph))
    IN [raised |-> r.raised,
        instance |-> [K EXCEPT !.graph = r.graph,
                               !.statistics = IF r.raised THEN @
                                              ELSE _calculate_statistics(K.graph)]]

\* builds for the queries: the records of the build script, and a record
\* that lists up to MaxCentralAuthors authors, alone or followed by a
\* record of two authors
QueryRecordLists ==
    LET firsts == {RunRecord(0, 1, n) : n \in 0..MaxCentralAuthors}
        seconds == {RunRecord(i, from, from + 1) :
                      i \in Indexes, from \in {1, MaxCentralAuthors}}
    IN AppRecordLists \cup ListsOf(firsts, seconds)

BuildForQueries ==
    /\ pc = "new"
    /\ \E publications_data \in QueryRecordLists :
         LET S == build_from_publications(Store, publications_data)
         IN /\ graph' = S.graph
            /\ node_index' = S.node_index
            /\ edge_index' = S.edge_index
            /\ statistics' = _calculate_statistics(S.graph)
            /\ result' = [op |-> "build", publications_data |-> publications_data]
    /\ pc' = "built"
    /\ UNCHANGED app

\* the edges a client may add
ClientEdges ==
    {GraphEdge(source, target, rel) :
       source \in StoreIds, target \in StoreIds, rel \in StoreRelations}

RECURSIVE AddEdges(_, _)
AddEdges(S, edges) ==
    IF edges = <<>> THEN S ELSE AddEdges(add_edge(S, Head(edges)), Tail(edges))

\* a client fills the instance: add_node for the two authors or for none,
\* then add_edge for each edge of a list
FillStore ==
    /\ pc = "new"
    /\ \E edges \in SeqsUpTo(ClientEdges, MaxStoreEdges), with_nodes \in BOOLEAN :
         LET N == IF with_nodes
                  THEN add_node(add_node(Store, NodeOfEntry(EntryX)), NodeOfEntry(EntryY))
                  ELSE Store
             S == AddEdges(N, edges)
         IN /\ graph' = S.graph
            /\ node_index' = S.node_index
            /\ edge_index' = S.edge_index
            /\ result' = [op |-> "fill", edges |-> edges, with_nodes |-> with_nodes]
    /\ pc' = "built"
    /\ UNCHANGED statistics
    /\ UNCHANGED app

\* GET /api/graph/centrality; closeness measures the distances towards a
\* node, or from it with networkx before 2.3
Centrality ==
    /\ pc = "built"
    /\ \E inward \in BOOLEAN :
         result' = [op |-> "centrality", inward |-> inward,
                    ret |-> get_centrality_measures(graph, inward)]
    /\ pc' = "answered"
    /\ UNCHANGED <<graph, node_index, edge_index, statistics>>
    /\ UNCHANGED app

\* self._calculate_statistics() called on the instance once more
Statistics ==
    /\ pc = "built"
    /\ LET r == CalculateStatistics([graph |-> graph, node_index |-> node_index,
                                     edge_index |-> edge_index, statistics |-> statistics])
       IN /\ graph' = r.instance.graph
          /\ node_index' = r.instance.node_index
          /\ edge_index' = r.instance.edge_index
          /\ statistics' = r.instance.statistics
          /\ result' = [op |-> "calculate_statistics", raised |-> r.raised]
    /\ pc' = "answered"
    /\ UNCHANGED app

NextQueries ==
    \/ BuildForQueries \/ FillStore
    \/ AuthorNetwork \/ ThemeConnections \/ KeywordCoOccurrence \/ ShortestPath
    \/ Centrality \/ Statistics

SpecQueries == Init /\ [][NextQueries]_vars

-----------------------------------------------------------------------------
(* Properties                                                              *)

Built == pc \in {"built", "answered"}

NodesOfType(g, t) == {n \in Range(g.node) : DataOf(g, n).node_type = t}

EdgeSet(g, rel) == {i \in DOMAIN g.edge : g.edge[i].relationship_type = rel}

IndexedEdges == UNION {Range(edge_index[rel]) : rel \in DOMAIN edge_index}

RelationshipTypes == {"authored_by", "published_in", "has_theme", "has_keyword", "co_authors"}

\* C1: after build_from_publications every edge, of every relationship
\* type, in the graph and in edge_index, has a source and a target that are
\* keys of node_index.
C1_NoDanglingEdges ==
    Built => \A e \in Range(graph.edge) \cup IndexedEdges :
                e.source \in DOMAIN node_index /\ e.target \in DOMAIN node_index

\* a build that produced edges of all five relationship types
C1_Witness ==
    /\ pc = "built"
    /\ DOMAIN edge_index = RelationshipTypes
    /\ \A rel \in RelationshipTypes : EdgeSet(graph, rel) # {}

\* C2: add_edge fails with an unknown-node error whenever an endpoint of
\* the edge is not an existing node id, and then leaves the store unchanged.
C2_AddEdgeRejectsUnknownNode ==
    [][(/\ result'.op = "add_edge"
        /\ ~(result'.edge.source \in DOMAIN node_index
             /\ result'.edge.target \in DOMAIN node_index))
       => (result'.raised /\ UNCHANGED store)]_vars

\* the co_authors edges between a and b, both directions together
CoAuthorEdgesBetween(g, a, b) ==
    Cardinality({i \in EdgeSet(g, "co_authors") :
                   {g.edge[i].source, g.edge[i].target} = {a, b}})

\* the publication nodes with an authored_by edge to a and one to b
SharedPublications(g, a, b) ==
    {p \in NodesOfType(g, "publication") :
       \A x \in {a, b} : \E i \in EdgeSet(g, "authored_by") :
          g.edge[i].source = p /\ g.edge[i].target = x}

\* C3: after a build on a fresh instance, two distinct authors have as many
\* co_authors edges between them as there are publication nodes with
\* authored_by edges to both.
C3_CoAuthorEdgesEqualSharedPublications ==
    pc = "built" =>
       \A a \in NodesOfType(graph, "author"), b \in NodesOfType(graph, "author") :
          a # b => CoAuthorEdgesBetween(graph, a, b) = Cardinality(SharedPublications(graph, a, b))

\* the author ids of the publication of an index: the ids of the non-blank
\* authors of the records that carry the index, in input order
ListedAuthors(publications_data, index) ==
    LET names == Flatten([i \in DOMAIN publications_data |->
                            IF publications_data[i].index = index
                            THEN SelectSeq(ListOf(publications_data[i].authors),
                                           LAMBDA a : ~IsBlank(a))
                            ELSE <<>>])
    IN [i \in DOMAIN names |-> <<"author", Normalize(names[i])>>]

PairwiseDistinct(s) == \A i \in DOMAIN s, j \in DOMAIN s : i # j => s[i] # s[j]

Precedes(s, x, y) == \E i \in DOMAIN s, j \in DOMAIN s : i < j /\ s[i] = x /\ s[j] = y

DirectedCoAuthorEdges(g, x, y) ==
    Cardinality({i \in EdgeSet(g, "co_authors") :
                   g.edge[i].source = x /\ g.edge[i].target = y})

\* C4: a publication whose authors normalize to pairwise distinct ids
\* a_1..a_k gives one co_authors edge a_i -> a_j for every i < j and none
\* a_j -> a_i.  Stated for every ordered pair (x, y) of authors all of
\* whose common publications have pairwise distinct authors: the number of
\* edges x -> y is the number of publications that list x before y.
C4_OneEdgePerOrderedPair ==
    pc = "built" =>
       LET data == result.publications_data
           listed == [i \in Indexes |-> ListedAuthors(data, i)]
           authors == UNION {Range(listed[i]) : i \in Indexes}
       IN \A x \in authors, y \in authors :
             (/\ x # y
              /\ \A i \in Indexes :
                    {x, y} \subseteq Range(listed[i]) => PairwiseDistinct(listed[i]))
             => DirectedCoAuthorEdges(graph, x, y)
                  = Cardinality({i \in Indexes : Precedes(listed[i], x, y)})

\* two publications, one with three distinct authors and one that lists two
\* of them in the opposite order
C4_Witness ==
    /\ pc = "built"
    /\ \E i \in Indexes, j \in Indexes :
          LET a == ListedAuthors(result.publications_data, i)
              b == ListedAuthors(result.publications_data, j)
          IN /\ i # j /\ Len(a) = 3 /\ Len(b) = 2
             /\ PairwiseDistinct(a) /\ PairwiseDistinct(b)
             /\ Precedes(a, b[2], b[1])
             /\ DirectedCoAuthorEdges(graph, b[1], b[2]) = 1
             /\ DirectedCoAuthorEdges(graph, b[2], b[1]) = 1

\* the targets of the co_authors edges that leave u
CoAuthorSuccessors(g, u) ==
    {g.edge[i].target : i \in {j \in EdgeSet(g, "co_authors") : g.edge[j].source = u}}

\* the nodes at most d outgoing co_authors edges away from origin
RECURSIVE ReachWithin(_, _, _)
ReachWithin(g, origin, d) ==
    IF d = 0 THEN {origin}
    ELSE LET near == ReachWithin(g, origin, d - 1)
         IN near \cup UNION {CoAuthorSuccessors(g, n) : n \in near}

AnsweredAuthorNetwork == result.op = "author_network" /\ result.ret.found

\* C5: at depth >= 1 on an existing author, the returned nodes contain every
\* author at most depth outgoing co_authors edges away from the origin and
\* the returned edges every pair (expanded node, co_authors successor).
C5_NetworkReachesCoAuthors ==
    (AnsweredAuthorNetwork /\ result.depth >= 1) =>
       LET origin == EntityId("author", result.author_name)
       IN /\ ReachWithin(graph, origin, result.depth) \subseteq result.ret.nodes
          /\ \A n \in ReachWithin(graph, origin, result.depth - 1) :
                \A m \in CoAuthorSuccessors(graph, n) : <<n, m>> \in DOMAIN result.ret.edges

\* C6: at depth 0 the query returns the origin alone and no edge; at depth
\* d it returns no node more than d co_authors hops away from the origin.
C6_NetworkWithinDepth ==
    AnsweredAuthorNetwork =>
       LET origin == EntityId("author", result.author_name)
       IN /\ result.depth = 0 =>
                result.ret.nodes = {origin} /\ DOMAIN result.ret.edges = {}
          /\ result.ret.nodes \subseteq ReachWithin(graph, origin, result.depth)

\* a query at depth 1 from an author with a co-author exactly two hops away
C6_Witness ==
    /\ AnsweredAuthorNetwork
    /\ result.depth = 1
    /\ LET origin == EntityId("author", result.author_name)
       IN ReachWithin(graph, origin, 2) \ ReachWithin(graph, origin, 1) # {}

AnsweredCoOccurrence == result.op = "keyword_co_occurrence" /\ result.ret.found

\* C7: at one threshold, keyword B is in the result for A exactly when A is
\* in the result for B, and then with the same count.
C7_CoOccurrenceSymmetric ==
    AnsweredCoOccurrence =>
       \A other \in KeywordNames :
          LET a == EntityId("keyword", result.keyword)
              b == EntityId("keyword", other)
              forth == result.ret.co_occurring_keywords
              back == get_keyword_co_occurrence(graph, other, result.min_co_occurrence)
          IN (a # b /\ back.found) =>
                /\ b \in DOMAIN forth <=> a \in DOMAIN back.co_occurring_keywords
                /\ b \in DOMAIN forth => forth[b] = back.co_occurring_keywords[a]

\* a result with a keyword that one publication lists more than once
C7_Witness ==
    /\ AnsweredCoOccurrence
    /\ \E b \in DOMAIN result.ret.co_occurring_keywords :
          /\ result.ret.co_occurring_keywords[b] >= 2
          /\ Cardinality(NodesOfType(graph, "publication")) = 1

\* the publication nodes with a has_keyword edge to k
Carrying(g, k) ==
    {p \in NodesOfType(g, "publication") :
       \E i \in EdgeSet(g, "has_keyword") : g.edge[i].source = p /\ g.edge[i].target = k}

\* C8: the result holds exactly the other keywords that at least
\* min_co_occurrence publications carry together with the queried one, and
\* total_publications is the number of publications that carry the queried
\* keyword.
C8_CoOccurrenceCountsPublications ==
    AnsweredCoOccurrence =>
       LET k == EntityId("keyword", result.keyword)
       IN /\ DOMAIN result.ret.co_occurring_keywords
               = {b \in NodesOfType(graph, "keyword") \ {k} :
                    Cardinality(Carrying(graph, k) \cap Carrying(graph, b))
                       >= result.min_co_occurrence}
          /\ result.ret.total_publications = Cardinality(Carrying(graph, k))

AnsweredTheme == result.op = "theme_connections" /\ result.ret.found

\* C9: publications are the sources of the has_theme edges into the theme,
\* one entry per edge; related_themes are the other themes that those
\* publications have; publication_count is the length of publications.
C9_ThemeConnections ==
    AnsweredTheme =>
       LET theme_id == EntityId("theme", result.theme_name)
           into == {i \in EdgeSet(graph, "has_theme") : graph.edge[i].target = theme_id}
           pubs == {graph.edge[i].source : i \in into}
       IN /\ Range(result.ret.publications) = pubs
          /\ Len(result.ret.publications) = Cardinality(into)
          /\ result.ret.related_themes
               = {graph.edge[i].target :
                    i \in {j \in EdgeSet(graph, "has_theme") :
                             graph.edge[j].source \in pubs /\ graph.edge[j].target # theme_id}}
          /\ result.ret.publication_count = Len(result.ret.publications)
          /\ theme_id \notin result.ret.related_themes

\* a theme whose publication has another theme as well
C9_Witness == AnsweredTheme /\ result.ret.related_themes # {} /\ result.ret.publication_count >= 1

\* the connected component of the nodes of `seen' when the direction of the
\* edges is ignored
RECURSIVE Component(_, _)
Component(g, seen) ==
    LET touched == {e \in Range(g.edge) : e.source \in seen \/ e.target \in seen}
        more == seen \cup {e.source : e \in touched} \cup {e.target : e \in touched}
    IN IF more = seen THEN seen ELSE Component(g, more)

AnsweredPath == result.op = "shortest_path" /\ result.ret.status = 200

\* C10: for two existing nodes the path query answers; in one component
\* the node list has path_length + 1 entries, starts at the source and ends
\* at the target (one entry and length 0 when they are equal); in different
\* components path_length is -1 and the list is empty.
C10_PathShape ==
    (/\ result.op = "shortest_path"
     /\ HasNode(graph, result.source_id) /\ HasNode(graph, result.target_id)) =>
       LET path == result.ret.path
       IN /\ result.ret.status = 200
          /\ result.target_id \in Component(graph, {result.source_id}) =>
                /\ Len(path) = result.ret.path_length + 1
                /\ path[1].id = result.source_id
                /\ path[Len(path)].id = result.target_id
                /\ result.source_id = result.target_id =>
                      Len(path) = 1 /\ result.ret.path_length = 0
          /\ result.target_id \notin Component(graph, {result.source_id}) =>
                result.ret.path_length = -1 /\ path = <<>>

\* a path of two hops was found
C10_Witness == AnsweredPath /\ result.ret.path_length = 2 /\ Len(result.ret.path) = 3

\* the id that a query looks up, by the operation recorded in r
TargetsOf(r) ==
    CASE r.op = "author_network" -> {EntityId("author", r.author_name)}
      [] r.op = "theme_connections" -> {EntityId("theme", r.theme_name)}
      [] r.op = "keyword_co_occurrence" -> {EntityId("keyword", r.keyword)}
      [] r.op = "shortest_path" -> {r.source_id, r.target_id}
      [] OTHER -> {}

\* the distinguished outcome: None for the three graph queries, the 404
\* response for the path query
ReportsNotFound(r) ==
    IF r.op = "shortest_path" THEN r.ret.status = 404 ELSE ~r.ret.found

\* C11: a query whose target id (for the path query, either endpoint) is
\* not a node of the graph returns the not-found outcome, and no query
\* changes the graph, the indexes or the statistics.
C11_MissingEntityNotFound ==
    [][(pc = "built" /\ pc' = "answered") =>
          /\ (\E id \in TargetsOf(result') : ~HasNode(graph, id)) => ReportsNotFound(result')
          /\ UNCHANGED <<graph, node_index, edge_index, statistics>>]_vars

\* a theme query has met a missing theme in a graph that holds another theme
C11_Witness ==
    /\ pc = "answered"
    /\ result.op = "theme_connections"
    /\ ~result.ret.found
    /\ NodesOfType(graph, "theme") # {}

\* C16: a build from the empty record list gives no node, no edge, and
\* statistics that are all zero or empty.
C16_EmptyBuild ==
    (pc = "built" /\ result.publications_data = <<>>) =>
       /\ graph.node = <<>> /\ graph.edge = <<>>
       /\ statistics.total_nodes = 0
       /\ statistics.total_edges = 0
       /\ DOMAIN statistics.node_types = {}
       /\ DOMAIN statistics.edge_types = {}
       /\ statistics.most_connected_authors = <<>>
       /\ statistics.most_productive_journals = <<>>
       /\ statistics.theme_distribution = <<>>
       /\ statistics.collaboration_network_stats.total_authors = 0
       /\ statistics.collaboration_network_stats.connected_components = 0
       /\ statistics.collaboration_network_stats.largest_component_size = 0
       /\ statistics.collaboration_network_stats.average_clustering.num = 0

\* the build of the empty list has returned
C16_Witness ==
    /\ pc = "built"
    /\ result.op = "build"
    /\ result.publications_data = <<>>
    /\ DOMAIN statistics = DOMAIN _calculate_statistics(EmptyGraph)

\* a and b are joined by a co_authors edge, in one direction or the other
CoAuthorLinked(g, a, b) ==
    \E i \in EdgeSet(g, "co_authors") :
       {g.edge[i].source, g.edge[i].target} = {a, b}

\* a chain of co-author links leads from a to b
ChainJoins(g, authors, a, b) ==
    \E p \in SeqsUpTo(authors, Cardinality(authors)) :
       /\ p # <<>> /\ p[1] = a /\ p[Len(p)] = b
       /\ \A i \in 1..(Len(p) - 1) : CoAuthorLinked(g, p[i], p[i + 1])

\* the classes of the authors under "a chain of co-author links joins them"
CoAuthorClasses(g) ==
    LET authors == NodesOfType(g, "author")
    IN {{b \in authors : ChainJoins(g, authors, a, b)} : a \in authors}

\* C18: connected_components is the number of classes of Author nodes
\* joined by chains of co_authors edges, direction and multiplicity
\* ignored (an author without co-author is a class of its own), and
\* largest_component_size the size of the largest class, 0 without author.
C18_CollaborationComponents ==
    Built =>
       LET classes == CoAuthorClasses(graph)
           stats == statistics.collaboration_network_stats
       IN /\ stats.connected_components = Cardinality(classes)
          /\ \A c \in classes : Cardinality(c) <= stats.largest_component_size
          /\ classes # {} => \E c \in classes : Cardinality(c) = stats.largest_component_size
          /\ classes = {} => stats.largest_component_size = 0

\* two co-authors whose only edge points one way, and an author alone
C18_Witness ==
    /\ pc = "built"
    /\ statistics.collaboration_network_stats.total_authors = 3
    /\ statistics.collaboration_network_stats.connected_components = 2
    /\ statistics.collaboration_network_stats.largest_component_size = 2
    /\ Cardinality(EdgeSet(graph, "co_authors")) = 1

\* the ids of the non-blank keywords of the records that carry the index
ListedKeywords(publications_data, index) ==
    LET names == Flatten([i \in DOMAIN publications_data |->
                            IF publications_data[i].index = index
                            THEN SelectSeq(ListOf(publications_data[i].keywords),
                                           LAMBDA k : ~IsBlank(k))
                            ELSE <<>>])
    IN [i \in DOMAIN names |-> <<"keyword", Normalize(names[i])>>]

\* the number of rel edges from source to target
EdgesFromTo(g, rel, source, target) ==
    Cardinality({i \in EdgeSet(g, rel) :
                   g.edge[i].source = source /\ g.edge[i].target = target})

Occurrences(s, x) == Cardinality({i \in DOMAIN s : s[i] = x})

\* the records of the build had an absent list or a blank entry
HadBlanks(publications_data) ==
    \E i \in DOMAIN publications_data :
       \/ ~publications_data[i].authors.some
       \/ ~publications_data[i].keywords.some
       \/ \E n \in Range(ListOf(publications_data[i].authors))
                   \cup Range(ListOf(publications_data[i].keywords)) : IsBlank(n)

\* C19: a build over records with absent or null authors or keywords
\* lists, or with None, empty or whitespace-only entries, completes; the
\* Author and Keyword nodes are exactly the ids of the entries that are not
\* blank, every record has its publication node, and a publication has one
\* authored_by or has_keyword edge per entry that is not blank.
C19_BlankEntriesSkipped ==
    pc = "built" =>
       LET data == result.publications_data
           authors == [i \in Indexes |-> ListedAuthors(data, i)]
           keywords == [i \in Indexes |-> ListedKeywords(data, i)]
       IN /\ NodesOfType(graph, "author") = UNION {Range(authors[i]) : i \in Indexes}
          /\ NodesOfType(graph, "keyword") = UNION {Range(keywords[i]) : i \in Indexes}
          /\ NodesOfType(graph, "publication") = {PubId(data[i].index) : i \in DOMAIN data}
          /\ \A i \in Indexes :
                /\ \A a \in NodesOfType(graph, "author") :
                      EdgesFromTo(graph, "authored_by", PubId(i), a) = Occurrences(authors[i], a)
                /\ \A k \in NodesOfType(graph, "keyword") :
                      EdgesFromTo(graph, "has_keyword", PubId(i), k)
                         = Occurrences(keywords[i], k)

\* a record with a None entry before an author, followed by a record
\* without blanks
C19_Witness ==
    /\ pc = "built"
    /\ LET data == result.publications_data
       IN /\ Len(data) = 2
          /\ HadBlanks(data)
          /\ data[1].authors.some
          /\ Len(data[1].authors.v) = 2
          /\ data[1].authors.v[1] = NoneEntry
          /\ ~IsBlank(data[1].authors.v[2])
    /\ Cardinality(NodesOfType(graph, "author")) = 2

EntityTypes == {"author", "journal", "theme", "keyword"}

\* C20: after a build no Author, Journal, Theme or Keyword node has a label
\* that is empty or made of whitespace only.
C20_NoBlankLabel ==
    pc = "built" =>
       \A t \in EntityTypes : \A n \in NodesOfType(graph, t) :
          LET label == DataOf(graph, n).label
          IN label # <<>> /\ \E i \in DOMAIN label : label[i] \notin Whitespace

\* the co_authors edges that a is the source of, plus those it is the
\* target of
IncidentCoAuthorEdges(g, a) ==
    Cardinality({i \in EdgeSet(g, "co_authors") : g.edge[i].source = a})
       + Cardinality({i \in EdgeSet(g, "co_authors") : g.edge[i].target = a})

\* C17: most_connected_authors has at most 10 entries (author id, count),
\* of distinct authors, by non-increasing count; the count of an author is
\* the number of co_authors edges it is the source of plus the number it is
\* the target of; an author with such edges is left out only when 10
\* entries are kept, and then has no larger count than any entry.
C17_MostConnectedAuthors ==
    pc = "built" =>
       LET ranking == statistics.most_connected_authors
           ranked == {ranking[i][1] : i \in DOMAIN ranking}
           others == {a \in NodesOfType(graph, "author") \ ranked :
                        IncidentCoAuthorEdges(graph, a) > 0}
       IN /\ Len(ranking) <= 10
          /\ \A i \in DOMAIN ranking :
                /\ ranking[i][1] \in NodesOfType(graph, "author")
                /\ ranking[i][2] = IncidentCoAuthorEdges(graph, ranking[i][1])
          /\ \A i \in DOMAIN ranking, j \in DOMAIN ranking :
                /\ i < j => ranking[i][2] >= ranking[j][2]
                /\ i # j => ranking[i][1] # ranking[j][1]
          /\ others # {} => Len(ranking) = 10
          /\ \A a \in others : \A i \in DOMAIN ranking :
                IncidentCoAuthorEdges(graph, a) <= ranking[i][2]

\* more than 10 authors have co-authors, and the ranking keeps 10 of them
\* with counts that differ
C17_Witness ==
    /\ pc = "built"
    /\ Cardinality({a \in NodesOfType(graph, "author") :
                       IncidentCoAuthorEdges(graph, a) > 0}) > 10
    /\ Len(statistics.most_connected_authors) = 10
    /\ statistics.most_connected_authors[1][2] > statistics.most_connected_authors[10][2]

\* the instance that main() of the build script built
BuiltInstance ==
    [graph |-> graph, node_index |-> node_index, edge_index |-> edge_index,
     statistics |-> statistics]

\* the last load returned True and the document it read is the export of
\* the built instance
LoadedTheExport ==
    /\ pc = "built"
    /\ load.pc = "idle"
    /\ load.ret = "True"
    /\ load.graph_data = export_to_json(BuiltInstance)

NodeEntries(g) == {NodeEntry(g, i) : i \in DOMAIN g.node}

\* the number of edges of g equal to e
Copies(g, e) == Cardinality({i \in DOMAIN g.edge : g.edge[i] = e})

\* C12: once load_knowledge_graph has loaded the document that export_to_json
\* wrote for a built graph, kg has the same nodes with the same label, type,
\* properties and weight, the same number of copies of every edge (hence the
\* same multiset of edges per relationship type), statistics equal to the
\* original ones and to the ones recomputed from the loaded graph, and its
\* own export is the document again.
C12_RoundTrip ==
    LoadedTheExport =>
        /\ kg.some
        /\ NodeEntries(kg.v.graph) = NodeEntries(graph)
        /\ Len(kg.v.graph.node) = Len(graph.node)
        /\ \A e \in Range(graph.edge) \cup Range(kg.v.graph.edge) :
              Copies(kg.v.graph, e) = Copies(graph, e)
        /\ kg.v.statistics = statistics
        /\ _calculate_statistics(kg.v.graph) = statistics
        /\ export_to_json(kg.v) = load.graph_data

\* a round trip of a graph with parallel edges and every type of node, which
\* the load stores in another order than the build did
C12_Witness ==
    /\ LoadedTheExport
    /\ \E e \in Range(graph.edge) : Copies(graph, e) > 1
    /\ {"publication", "author", "journal", "theme", "keyword"}
          \subseteq {graph.data[i].node_type : i \in DOMAIN graph.data}
    /\ kg.v.graph.edge # graph.edge

\* C13: when load_knowledge_graph returns False, kg has the value it had
\* before the call.
C13_FailedLoadKeepsGraph ==
    (load.pc = "idle" /\ load.ret = "False") => kg = load.before

\* graph_data.get('statistics', {})
StatisticsOf(graph_data) ==
    IF "statistics" \in DOMAIN graph_data THEN graph_data.statistics ELSE <<>>

\* K holds every node and edge of the document and its statistics
Complete(K, graph_data) ==
    /\ "nodes" \in DOMAIN graph_data
    /\ "edges" \in DOMAIN graph_data
    /\ \A i \in DOMAIN graph_data.nodes :
          "id" \in DOMAIN graph_data.nodes[i] => HasNode(K.graph, graph_data.nodes[i].id)
    /\ Len(K.graph.edge) = Len(graph_data.edges)
    /\ K.statistics = StatisticsOf(graph_data)

\* C14: a request answered while load_knowledge_graph runs reads, through
\* kg, either what kg was before the load or an instance that holds the
\* whole document.
C14_QuerySeesWholeGraph ==
    [][(load.pc # "idle" /\ Open /\ ~Open')
          => (kg = load.before \/ (kg.some /\ Complete(kg.v, load.graph_data)))]_vars

\* C15: after the build returned, and after load_knowledge_graph returned
\* True, the statistics of the instance are the statistics computed from
\* its graph.
C15_StatisticsMatchGraph ==
    /\ pc = "built" => statistics = _calculate_statistics(graph)
    /\ (load.pc = "idle" /\ load.ret = "True")
          => kg.v.statistics = _calculate_statistics(kg.v.graph)

\* C23: add_node(node) returns normally and the last write wins: afterwards
\* the graph and node_index hold node's label, type, properties and weight
\* at node.id; the graph has one node more if the id was new and as many as
\* before otherwise; every other node, the order of the nodes, node_index
\* at the other ids, the edges and edge_index are as before.
C23_AddNodeLastWriteWins ==
    [][result'.op = "add_node" =>
         LET node == result'.node
         IN /\ ~result'.raised
            /\ HasNode(graph', node.id)
            /\ DataOf(graph', node.id)
                  = NodeData(node.label, node.node_type, node.properties, node.weight)
            /\ node.id \in DOMAIN node_index' /\ node_index'[node.id] = node
            /\ Len(graph'.node) = Len(graph.node) + (IF HasNode(graph, node.id) THEN 0 ELSE 1)
            /\ SubSeq(graph'.node, 1, Len(graph.node)) = graph.node
            /\ \A n \in Range(graph.node) \ {node.id} : DataOf(graph', n) = DataOf(graph, n)
            /\ DOMAIN node_index' = DOMAIN node_index \cup {node.id}
            /\ \A n \in DOMAIN node_index \ {node.id} : node_index'[n] = node_index[n]
            /\ graph'.edge = graph.edge
            /\ edge_index' = edge_index]_vars

\* add_node has written a node at an id that the graph held already (an
\* earlier edge is incident to it), next to another node that it left alone
C23_Witness ==
    /\ result.op = "add_node"
    /\ \E e \in Range(graph.edge) : e.source = result.node.id \/ e.target = result.node.id
    /\ \E n \in DOMAIN node_index :
          n # result.node.id /\ node_index[n].label # result.node.label
    /\ Len(graph.node) = 2

\* C27: the ids in node_index are the nodes of the graph, and every node of
\* the graph carries a label and a node_type (its attributes were set by
\* add_node).
C27_IndexMatchesGraph ==
    /\ DOMAIN node_index = Range(graph.node)
    /\ \A i \in DOMAIN graph.data : graph.data[i].set

\* C28: no co_authors edge of a built graph joins an author to itself.
C28_NoCoAuthorSelfLoop ==
    \A e \in Range(graph.edge) : e.relationship_type = "co_authors" => e.source # e.target

\* the ids of the authors that one record lists
AuthorIdsOf(pub_data) ==
    {EntityId("author", ListOf(pub_data.authors)[i]) :
       i \in {k \in DOMAIN ListOf(pub_data.authors) : ~IsBlank(ListOf(pub_data.authors)[k])}}

\* C29: after a build on a fresh instance every co_authors edge a -> b has
\* a record of the input that lists both a and b among its authors.
C29_CoAuthorsShareARecord ==
    pc = "built" =>
        \A e \in Range(graph.edge) :
           e.relationship_type = "co_authors" =>
              \E i \in DOMAIN result.publications_data :
                 {e.source, e.target} \subseteq AuthorIdsOf(result.publications_data[i])

DistinctIndexes(publications_data) ==
    PairwiseDistinct([i \in DOMAIN publications_data |-> publications_data[i].index])

\* C30: in a graph built on a fresh instance from records with pairwise
\* distinct index values every publication node has at most one outgoing
\* has_theme edge and at most one outgoing published_in edge, and
\* get_theme_connections finds no related theme for any theme of the graph.
C30_OneThemePerPublication ==
    (pc = "built" /\ DistinctIndexes(result.publications_data)) =>
        /\ \A p \in NodesOfType(graph, "publication") :
              \A rel \in {"has_theme", "published_in"} :
                 Cardinality({i \in DOMAIN graph.edge :
                                graph.edge[i].source = p
                                   /\ graph.edge[i].relationship_type = rel}) <= 1
        /\ \A theme_name \in ThemeNames :
              LET ret == get_theme_connections(graph, theme_name)
              IN ret.found => ret.related_themes = {}

\* two records with distinct indexes, each with a theme of its own and a
\* journal; both themes are found
C30_Witness ==
    /\ pc = "built"
    /\ DistinctIndexes(result.publications_data)
    /\ Len(result.publications_data) = 2
    /\ Cardinality({i \in DOMAIN graph.edge : graph.edge[i].relationship_type = "has_theme"}) = 2
    /\ \E i \in DOMAIN graph.edge : graph.edge[i].relationship_type = "published_in"
    /\ \A theme_name \in ThemeNames :
          /\ get_theme_connections(graph, theme_name).found
          /\ get_theme_connections(graph, theme_name).publication_count = 1

\* an edge of the graph joins u and v, in one direction or the other
Joined(g, u, v) ==
    \E e \in Range(g.edge) :
       (e.source = u /\ e.target = v) \/ (e.source = v /\ e.target = u)

\* the nodes that a chain of at most k joined pairs links to source
RECURSIVE WithinHops(_, _, _)
WithinHops(g, source, k) ==
    IF k = 0 THEN {source}
    ELSE LET near == WithinHops(g, source, k - 1)
         IN near \cup {v \in Range(g.node) : \E u \in near : Joined(g, u, v)}

\* C26: a path that the shortest-path query returns is a shortest one of
\* the undirected view: consecutive nodes are joined by an edge in at least
\* one direction, no node repeats, and no chain of fewer than path_length
\* joined pairs links the source to the target.
C26_PathIsShortest ==
    (AnsweredPath /\ result.ret.path # <<>>) =>
       LET path == result.ret.path
       IN /\ \A i \in 1..(Len(path) - 1) : Joined(graph, path[i].id, path[i + 1].id)
          /\ PairwiseDistinct([i \in DOMAIN path |-> path[i].id])
          /\ result.ret.path_length = Len(path) - 1
          /\ result.target_id \in WithinHops(graph, result.source_id, result.ret.path_length)
          /\ result.ret.path_length > 0 =>
                result.target_id
                   \notin WithinHops(graph, result.source_id, result.ret.path_length - 1)

\* a path of three hops was returned, to a target that has more than one
\* neighbour
C26_Witness ==
    /\ AnsweredPath
    /\ result.ret.path_length = 3
    /\ Cardinality(UndirectedNbrs(graph, result.target_id)) >= 2

\* the normal form of a raw name: lowercased, commas removed, spaces
\* replaced by underscores
Fold(name) == ReplaceSpaces(RemoveCommas([i \in DOMAIN name |-> Lower(name[i])]))

Kinds == [author |-> "authored_by", journal |-> "published_in", theme |-> "has_theme",
          keyword |-> "has_keyword"]

\* the raw names of one kind that a record gives, in order
NamesAt(pub_data, kind) ==
    CASE kind = "author" -> SelectSeq(ListOf(pub_data.authors), LAMBDA n : ~IsBlank(n))
      [] kind = "keyword" -> SelectSeq(ListOf(pub_data.keywords), LAMBDA n : ~IsBlank(n))
      [] kind = "journal" -> IF Truthy(pub_data.journal) THEN <<pub_data.journal.v>> ELSE <<>>
      [] kind = "theme" -> IF Truthy(pub_data.theme) THEN <<pub_data.theme.v>> ELSE <<>>

RawNames(publications_data, kind) ==
    UNION {Range(NamesAt(publications_data[r], kind)) : r \in DOMAIN publications_data}

\* the places of the input where a record of the given index names an
\* entity of the given kind whose normal form is folded
MentionsOf(publications_data, index, kind, folded) ==
    UNION {{<<r, i>> : i \in {k \in DOMAIN NamesAt(publications_data[r], kind) :
                                Fold(NamesAt(publications_data[r], kind)[k]) = folded}} :
             r \in {q \in DOMAIN publications_data : publications_data[q].index = index}}

\* the answer to the query of r, asked with the raw name n instead
SameQuery(g, r, n) ==
    CASE r.op = "author_network" -> get_author_collaboration_network(g, n, r.depth)
      [] r.op = "theme_connections" -> get_theme_connections(g, n)
      [] r.op = "keyword_co_occurrence" -> get_keyword_co_occurrence(g, n, r.min_co_occurrence)

RawNameOf(r) ==
    CASE r.op = "author_network" -> r.author_name
      [] r.op = "theme_connections" -> r.theme_name
      [] r.op = "keyword_co_occurrence" -> r.keyword

KindOf(r) ==
    CASE r.op = "author_network" -> "author"
      [] r.op = "theme_connections" -> "theme"
      [] r.op = "keyword_co_occurrence" -> "keyword"

Colliding == [author |-> CollidingAuthors, journal |-> CollidingJournals,
              theme |-> CollidingThemes, keyword |-> CollidingKeywords]

\* C25: raw names of one kind with the same normal form are one entity.
\* After a build the nodes of a kind are the ids <<kind, normal form>> of
\* the names the input gives, one node for each normal form, and a
\* publication has as many edges to that node as its records name the
\* entity, under whatever raw name; a query by a raw name finds the node of
\* its normal form and answers as it does for every other raw name of that
\* normal form.
C25_CollidingNamesAreOneEntity ==
    /\ pc = "built" =>
          \A kind \in DOMAIN Kinds :
             LET names == RawNames(result.publications_data, kind)
             IN /\ NodesOfType(graph, kind) = {<<kind, Fold(n)>> : n \in names}
                /\ \A n \in names, index \in Indexes :
                      EdgesFromTo(graph, Kinds[kind], PubId(index), <<kind, Fold(n)>>)
                         = Cardinality(MentionsOf(result.publications_data, index, kind,
                                                  Fold(n)))
    /\ (pc = "answered" /\ result.op \in {"author_network", "theme_connections",
                                           "keyword_co_occurrence"}) =>
          /\ result.ret.found <=> HasNode(graph, <<KindOf(result), Fold(RawNameOf(result))>>)
          /\ \A n \in Colliding[KindOf(result)] :
                Fold(n) = Fold(RawNameOf(result)) => SameQuery(graph, result, n) = result.ret

\* a build from two different raw author names of one normal form, given
\* by one record: one author node, labelled with the first of them, that
\* the publication has two edges to and that the other name finds
C25_Witness ==
    /\ pc = "built"
    /\ \E n \in RawNames(result.publications_data, "author"),
          m \in RawNames(result.publications_data, "author") :
          /\ n # m
          /\ Fold(n) = Fold(m)
          /\ NodesOfType(graph, "author") = {EntityId("author", n)}
          /\ node_index[EntityId("author", n)].label = n
          /\ EdgesFromTo(graph, "authored_by", PubId(0), EntityId("author", n)) = 2
          /\ get_author_collaboration_network(graph, m, MaxDepth).found

\* the co_authors edges between a and b, in either direction
CoAuthorEdgesOfPair(g, a, b) ==
    Cardinality({i \in DOMAIN g.edge :
                   /\ g.edge[i].relationship_type = "co_authors"
                   /\ {g.edge[i].source, g.edge[i].target} = {a, b}})

\* C21: after a second build from the same input on the same instance the
\* nodes are those of the first build, and every pair of nodes has twice
\* the co_authors edges it had after the first build (none if it had none).
C21_RebuildDoublesCoAuthorEdges ==
    pc = "rebuilt" =>
        /\ graph.node = result.before.node
        /\ \A a \in Range(graph.node), b \in Range(graph.node) :
              CoAuthorEdgesOfPair(graph, a, b) = 2 * CoAuthorEdgesOfPair(result.before, a, b)

\* the edges at n, counted one by one: those that leave it and those that
\* enter it
TotalDegree(g, n) ==
    Cardinality({i \in DOMAIN g.edge : g.edge[i].source = n})
        + Cardinality({i \in DOMAIN g.edge : g.edge[i].target = n})

\* a list of the centrality response: at most ten entries, each a node of
\* the graph listed once, as many as there are nodes if there are fewer
\* than ten, scores never increasing, equal scores in the order in which
\* the nodes were inserted
RankedList(g, list) ==
    /\ Len(list) <= 10
    /\ Len(list) = (IF Len(g.node) < 10 THEN Len(g.node) ELSE 10)
    /\ \A i \in DOMAIN list : HasNode(g, list[i].id)
    /\ \A i \in DOMAIN list, j \in DOMAIN list :
          i < j => /\ list[i].id # list[j].id
                   /\ list[i].score >= list[j].score
                   /\ list[i].score = list[j].score
                        => NodeIdx(g, list[i].id) < NodeIdx(g, list[j].id)

\* the degree list follows the total degree: the listed nodes are in the
\* order of their degrees, no node left out has a degree above that of a
\* listed one, and with two nodes or more the score is the degree divided
\* by n - 1, rounded to four decimals
DegreeRanked(g, list) ==
    /\ \A i \in DOMAIN list, j \in DOMAIN list :
          i < j => TotalDegree(g, list[i].id) >= TotalDegree(g, list[j].id)
    /\ \A i \in DOMAIN list, m \in Range(g.node) :
          (\A j \in DOMAIN list : list[j].id # m)
              => TotalDegree(g, m) <= TotalDegree(g, list[i].id)
    /\ Len(g.node) >= 2
         => \A i \in DOMAIN list :
               list[i].score = Round4(Fraction(TotalDegree(g, list[i].id), Len(g.node) - 1))

\* C24: the centrality query answers 200 with, for each of the three
\* measures, at most ten entries sorted by non-increasing score, equal
\* scores in node insertion order; the degree list ranks the nodes by
\* their total degree (in plus out, parallel edges counted) over n - 1;
\* on a graph without nodes the three lists are empty.
C24_CentralityRanking ==
    result.op = "centrality"
        => /\ result.ret.status = 200
           /\ RankedList(graph, result.ret.data.degree_centrality)
           /\ RankedList(graph, result.ret.data.betweenness_centrality)
           /\ RankedList(graph, result.ret.data.closeness_centrality)
           /\ DegreeRanked(graph, result.ret.data.degree_centrality)
           /\ graph.node = <<>>
                => /\ result.ret.data.degree_centrality = <<>>
                   /\ result.ret.data.betweenness_centrality = <<>>
                   /\ result.ret.data.closeness_centrality = <<>>

\* the centrality query has answered on a graph of more than ten nodes:
\* the degree list was cut at ten entries, two of which have one score,
\* and the betweenness list holds two different scores
C24_Witness ==
    /\ result.op = "centrality"
    /\ Len(graph.node) > 10
    /\ Len(result.ret.data.degree_centrality) = 10
    /\ \E i \in 1..10, j \in 1..10 :
          /\ i < j
          /\ result.ret.data.degree_centrality[i].score
               = result.ret.data.degree_centrality[j].score
    /\ \E i \in 1..10, j \in 1..10 :
          result.ret.data.betweenness_centrality[i].score
            > result.ret.data.betweenness_centrality[j].score

\* the operations that are meant to read only
QueryOps ==
    {"author_network", "theme_connections", "keyword_co_occurrence", "shortest_path",
     "centrality", "calculate_statistics"}

\* C22: no query mutates the store: a step of the author network, theme
\* connections, keyword co-occurrence, shortest path or centrality query
\* or of the statistics computation leaves the graph's nodes and edges,
\* node_index and edge_index as they were, whether its target was found
\* or not.
C22_QueriesLeaveStore ==
    [][result'.op \in QueryOps /\ pc = "built"
         => /\ graph' = graph
            /\ node_index' = node_index
            /\ edge_index' = edge_index]_vars

\* the statistics computation has run on a store that holds an edge
\* between two authors that is not a co_authors edge, so that it reached
\* its call of remove_edge
C22_Witness ==
    /\ result.op = "calculate_statistics"
    /\ result.raised
    /\ edges_to_remove(graph) # <<>>

====
